---- MODULE Spec2Model ----
(***************************************************************************)
(* The client-side synchronized cache (DataProvider, DataContext.tsx) and  *)
(* the validation workflow (ValidatePage.handleValidation) of the expert   *)
(* dashboard, as a state machine.  Every await of the source is a          *)
(* suspension point: the code up to an await is one action, the transport  *)
(* call's outcome and the code after it is the next one.                  *)
(***************************************************************************)
EXTENDS Integers, Sequences, FiniteSets, TLC

\* ------------------------------------------------------------------ bounds
MaxScanId == 2
MaxVid == 2
MaxProfiles == 2
MaxSubmits == 2
MaxHandlers == 2
MaxFeed == 1
MaxActions == 6
MaxResolutions == 2

ScanIds == 1..MaxScanId
Vids == 1..MaxVid
SubmitSlots == 1..MaxSubmits

\* ------------------------------------------------------------ value spaces
NoUser == "none"
Me == "expert1"
Null == "null"
NoError == "null"
NoScan == 0
Pending == "Pending Validation"
Validated == "Validated"
Corrected == "Corrected"
\* scans.ai_prediction is never written by the modelled code: one value per scan
AiPrediction(id) == "prediction " \o ToString(id)
\* profiles rows: id, username, full_name, email (an expert may have no full_name)
Nameless == "expert3"
Profile(e) == [id |-> e, username |-> e,
               full_name |-> IF e = Nameless THEN "" ELSE "name of " \o e,
               email |-> e \o "@example.org"]
\* an embedded profile that the select left empty
NoProfile == [id |-> Null, username |-> Null, full_name |-> Null, email |-> Null]
\* what the expert may have typed into the decision box of a scan
NoDraft == "undefined"
Blank == "  "
DraftValue == " corrected "
\* String.prototype.trim on the values above
Trim(s) == IF s = Blank THEN "" ELSE IF s = DraftValue THEN "corrected" ELSE s

VARIABLES
    user,               \* UserContext: the signed-in user's id, or NoUser
    rScans,             \* remote table scans: id -> row (st: absent, live or gone)
    rVals,              \* remote table validation_history, newest validated_at first
    nextVid,            \* remote serial of validation_history.id
    rProfiles,          \* remote count of profiles rows
    profFeed,           \* profiles INSERT / DELETE notifications not yet delivered
    owed,               \* history, kept only where "on" is set at the start: the
                        \* scans / validation_history notifications not yet
                        \* delivered, and whether a point-fetch has failed
    scans,              \* DataProvider state
    validationHistory,  \* DataProvider state
    totalUsers,         \* DataProvider state
    loading,            \* DataProvider state
    error,              \* DataProvider state
    initialFetched,     \* DataProvider ref
    isFetchingRef,      \* DataProvider ref
    reloads,            \* fetchData invocations suspended at an await
    handlers,           \* change-event handlers suspended at their point-fetch
    processingScanId,   \* ValidatePage state
    decision,           \* ValidatePage state: scan id -> draft corrected value
    notes,              \* ValidatePage state: scan id -> draft note
    submits,            \* handleValidation invocations, by slot
    ev,                 \* what the last step did (observation only)
    acts,               \* user and environment actions so far (bounds the run)
    loaded,             \* history: a reload has committed since the user signed in
    channels,           \* realtime channels the DataProvider created and has not removed
    auth,               \* the session the auth client holds: a user id, or NoUser
    profile,            \* UserProvider state: the profiles row of the user, or Null
    sessionLoading,     \* UserProvider state `loading`
    initialResolved,    \* UserProvider ref
    resolutions,        \* session resolutions suspended at an await
    route,              \* the page shown: "dashboard" (inside AuthGuard), "leaving"
                        \* (still inside, router.replace("/login") pending) or "login"
    suppressAuthToast   \* sessionStorage item bs:suppress-auth-toast is "true"

vars == <<user, rScans, rVals, nextVid, rProfiles, profFeed, owed, scans, validationHistory,
          totalUsers, loading, error, initialFetched, isFetchingRef, reloads, handlers,
          processingScanId, decision, notes, submits, ev, acts, loaded, channels, auth,
          profile, sessionLoading, initialResolved, resolutions, route, suppressAuthToast>>

remoteVars == <<rScans, rVals, nextVid, rProfiles, profFeed, owed>>
storeVars == <<scans, validationHistory, totalUsers>>
providerVars == <<scans, validationHistory, totalUsers, loading, error, initialFetched,
                  isFetchingRef, reloads, loaded>>
pageVars == <<processingScanId, decision, notes, submits>>
gateVars == <<auth, profile, sessionLoading, initialResolved, resolutions, route,
              suppressAuthToast>>

\* ----------------------------------------------------------------- helpers
Ev(op, id, res) == [op |-> op, id |-> id, res |-> res]

\* a step the user or the environment starts: the run holds MaxActions of them
Spend == acts < MaxActions /\ acts' = acts + 1

\* a step that continues an operation already started (a transport call returns)
Free == acts' = acts

\* a step that needs no telling apart from its effect on the state
Quiet == Ev("", 0, "")

Ids(seq) == {seq[i].id : i \in 1..Len(seq)}

Some(seq, id) == \E i \in 1..Len(seq) : seq[i].id = id

\* Array.prototype.findIndex on the id; 0 stands for -1
FindIndex(seq, id) ==
    IF Some(seq, id) THEN CHOOSE i \in 1..Len(seq) :
                              seq[i].id = id /\ \A j \in 1..(i - 1) : seq[j].id # id
    ELSE 0

\* a filter that drops the first entry whatever its id (a variant C19 must tell apart)
FilterOutHead(seq, id) == IF seq = <<>> THEN <<>> ELSE Tail(seq)

\* Array.prototype.filter(x => x.id !== id)
RECURSIVE FilterOut(_, _)
FilterOut(seq, id) ==
    IF seq = <<>> THEN <<>>
    ELSE IF Head(seq).id = id THEN FilterOut(Tail(seq), id)
         ELSE <<Head(seq)>> \o FilterOut(Tail(seq), id)

\* the row a select on scans returns (with its joins), as the store holds it
ScanRow(id) == [id |-> id, status |-> rScans[id].status,
                expert_validation |-> Null]

\* the row a select on validation_history returns, as the store holds it
ValRow(r) == [id |-> r.id, scan_id |-> r.scan_id, expert_id |-> r.expert_id,
              status |-> r.status, expert_validation |-> r.expert_validation,
              expert_profile |-> IF r.joined THEN Profile(r.expert_id) ELSE NoProfile]

LiveScan(id) == rScans[id].st = "live"

RECURSIVE ScansDesc(_)
ScansDesc(n) ==
    IF n = 0 THEN <<>>
    ELSE (IF LiveScan(n) THEN <<ScanRow(n)>> ELSE <<>>) \o ScansDesc(n - 1)

RECURSIVE LiveVals(_)
LiveVals(seq) ==
    IF seq = <<>> THEN <<>>
    ELSE (IF Head(seq).live THEN <<ValRow(Head(seq))>> ELSE <<>>) \o LiveVals(Tail(seq))

\* select ... from scans order by created_at desc (ids are handed out in creation order)
SelectScans == ScansDesc(MaxScanId)

\* select ... from validation_history order by validated_at desc
SelectValidations == LiveVals(rVals)

RVal(vid) == rVals[CHOOSE i \in 1..Len(rVals) : rVals[i].id = vid]

RValKnown(vid) == \E i \in 1..Len(rVals) : rVals[i].id = vid

\* the live validation_history row of (scan, expert), if any: the unique key
HasValOf(sid, expert) ==
    \E i \in 1..Len(rVals) :
        rVals[i].live /\ rVals[i].scan_id = sid /\ rVals[i].expert_id = expert

\* a second account, whose profiles row has another role
Other == "farmer1"
Users == {Me, Other}
Role(u) == IF u = Me THEN "expert" ELSE "farmer"
\* the profiles row of u, and the UserProvider's `profile` when it is null
UserProfile(u) == [id |-> u, role |-> Role(u)]
NoUserProfile == [id |-> Null, role |-> Null]

\* a session resolution or a signOut suspended at an await
Resolution(kind, pc, sessionUser, spinner) ==
    [kind |-> kind, pc |-> pc, sessionUser |-> sessionUser, spinner |-> spinner]

\* the channel name of the subscription effect
ChannelName(u) == "global-data-changes-" \o u

\* a UserProvider that has resolved the session and has nothing in flight, a
\* DataProvider whose subscription effect has run for `user`
SessionSettled ==
    /\ channels = (IF user = NoUser THEN <<>> ELSE <<ChannelName(user)>>)
    /\ auth = user
    /\ profile = NoUserProfile
    /\ sessionLoading = FALSE
    /\ initialResolved = TRUE
    /\ resolutions = {}
    /\ route = "dashboard"
    /\ suppressAuthToast = FALSE

\* ------------------------------------------------------------------- Init
Init ==
    /\ user = NoUser
    /\ rScans = [id \in ScanIds |->
                    [st |-> IF id = 1 THEN "live" ELSE "absent",
                     status |-> Pending]]
    /\ rVals = <<>>
    /\ nextVid = 1
    /\ rProfiles = 1
    /\ profFeed = [ins |-> 0, del |-> 0]
    /\ owed = [on |-> FALSE, notes |-> {}, lost |-> FALSE]
    /\ scans = <<>>
    /\ validationHistory = <<>>
    /\ totalUsers = 0
    /\ loading = TRUE
    /\ error = NoError
    /\ initialFetched = FALSE
    /\ isFetchingRef = FALSE
    /\ reloads = {}
    /\ handlers = {}
    /\ processingScanId = NoScan
    /\ decision = [id \in ScanIds |-> NoDraft]
    /\ notes = [id \in ScanIds |-> NoDraft]
    /\ submits = [i \in SubmitSlots |-> [pc |-> "idle"]]
    /\ ev = Quiet
    /\ acts = 0
    /\ loaded = FALSE
    /\ SessionSettled

\* -------------------------------------------- notifications of the channel
\* postgres_changes sends one notification per change of a subscribed table
Note(kind, table, id) == <<kind, table, id>>

\* a change by somebody else leaves its notification to be delivered
Owe(n) == owed' = (IF owed.on THEN [owed EXCEPT !.notes = @ \cup {n}] ELSE owed)

\* a notification reaches its callback; where the notifications are recorded only
\* those of recorded changes are delivered, each once
Deliver(n) ==
    IF owed.on
    THEN /\ n \in owed.notes
         /\ owed' = [owed EXCEPT !.notes = @ \ {n}]
    ELSE UNCHANGED owed

\* ------------------------------------------------- remote changes by others
\* A farmer submits a scan: the next id, Pending Validation.
ExtInsertScan ==
    \E id \in ScanIds :
        /\ rScans[id].st = "absent"
        /\ \A j \in 1..(id - 1) : rScans[j].st # "absent"
        /\ rScans' = [rScans EXCEPT ![id] = [st |-> "live", status |-> Pending]]
        /\ Owe(Note("INSERT", "scans", id))
        /\ ev' = Quiet
        /\ Spend
        /\ UNCHANGED <<user, channels, gateVars, rVals, nextVid, rProfiles, profFeed, providerVars,
                       handlers, pageVars>>

ExtDeleteScan ==
    \E id \in ScanIds :
        /\ rScans[id].st = "live"
        /\ rScans' = [rScans EXCEPT ![id].st = "gone"]
        /\ Owe(Note("DELETE", "scans", id))
        /\ ev' = Quiet
        /\ Spend
        /\ UNCHANGED <<user, channels, gateVars, rVals, nextVid, rProfiles, profFeed, providerVars,
                       handlers, pageVars>>

ExtDeleteValidation ==
    \E i \in 1..Len(rVals) :
        /\ rVals[i].live
        /\ rVals' = [rVals EXCEPT ![i].live = FALSE]
        /\ Owe(Note("DELETE", "validation_history", rVals[i].id))
        /\ ev' = Quiet
        /\ Spend
        /\ UNCHANGED <<user, channels, gateVars, rScans, nextVid, rProfiles, profFeed, providerVars,
                       handlers, pageVars>>

ExtInsertProfile ==
    /\ rProfiles < MaxProfiles
    /\ profFeed.ins < MaxFeed
    /\ rProfiles' = rProfiles + 1
    /\ profFeed' = [profFeed EXCEPT !.ins = @ + 1]
    /\ ev' = Quiet
    /\ Spend
    /\ UNCHANGED <<user, channels, gateVars, rScans, rVals, nextVid, owed, providerVars, handlers, pageVars>>

ExtDeleteProfile ==
    /\ rProfiles > 0
    /\ profFeed.del < MaxFeed
    /\ rProfiles' = rProfiles - 1
    /\ profFeed' = [profFeed EXCEPT !.del = @ + 1]
    /\ ev' = Quiet
    /\ Spend
    /\ UNCHANGED <<user, channels, gateVars, rScans, rVals, nextVid, owed, providerVars, handlers, pageVars>>

\* ------------------------------------------------------ DataProvider: reload
NoSnap == [ok |-> FALSE, scans |-> <<>>, vals |-> <<>>, count |-> 0]

\* the answer of the second profiles query, if fetchData has asked it
NoFallback == [asked |-> FALSE, ok |-> FALSE, profiles |-> {}]

\* !validation.expert_profile?.full_name && validation.expert_id
NeedsProfile(v) == v.expert_profile.full_name \in {Null, ""} /\ v.expert_id # Null

\* missingExpertIds
MissingExpertIds(vals) ==
    {vals[k].expert_id : k \in {j \in 1..Len(vals) : NeedsProfile(vals[j])}}

\* a reload that commits the rows as the bulk query returned them
\* (a variant C27 must tell apart)
Unpatched(vals, fb) == vals

\* validations.map(...) over profileMap: the rows fetchData commits
Patched(vals, fb) ==
    IF ~fb.asked \/ ~fb.ok THEN vals
    ELSE [k \in 1..Len(vals) |->
            LET validation == vals[k]
            IN IF ~NeedsProfile(validation) THEN validation
               ELSE IF \A row \in fb.profiles : row.id # validation.expert_id
               THEN validation
               ELSE [validation EXCEPT !.expert_profile =
                        CHOOSE row \in fb.profiles :
                            row.id = validation.expert_id]]

\* fetchData's guard without the in-flight flag (a variant C5 must tell apart)
FetchGuardNoFlag(ready) == ready

\* fetchData's guard: isReady is the value the calling closure captured
FetchGuard(ready) == ready /\ ~isFetchingRef

\* fetchData up to its first await, for a caller whose closure holds `ready`;
\* `owner` is the handleValidation slot awaiting it (0: nobody awaits it)
FetchData(ready, showSpinner, owner) ==
    IF FetchGuard(ready)
    THEN /\ isFetchingRef' = TRUE
         /\ loading' = (IF showSpinner \/ ~initialFetched THEN TRUE ELSE loading)
         /\ error' = NoError
         /\ reloads' = reloads \cup {[pc |-> "fetching", owner |-> owner, snap |-> NoSnap,
                                      fb |-> NoFallback]}
    ELSE UNCHANGED <<isFetchingRef, loading, error, reloads>>

FetchRes(ready) == IF FetchGuard(ready) THEN "started" ELSE "dropped"

\* the submit of slot `owner` runs its finally block (0: no submit awaits)
FinishSubmit(owner) ==
    IF owner = 0 THEN UNCHANGED <<submits, processingScanId>>
    ELSE /\ submits' = [submits EXCEPT ![owner] = [pc |-> "idle"]]
         /\ processingScanId' = (IF processingScanId = submits[owner].scanId
                                  THEN NoScan ELSE processingScanId)

\* supabase.removeChannel(channel): the first channel of that name leaves
RemoveChannel(chs, name) ==
    IF \A k \in 1..Len(chs) : chs[k] # name THEN chs
    ELSE LET at == CHOOSE k \in 1..Len(chs) :
                       chs[k] = name /\ \A j \in 1..(k - 1) : chs[j] # name
         IN [k \in 1..(Len(chs) - 1) |-> IF k < at THEN chs[k] ELSE chs[k + 1]]

\* a subscription effect without its cleanup (a variant C35 must tell apart)
CleanupKeepsChannel == channels

\* the cleanup of the subscription effect: the run for `user` removes the
\* channel it created, a run that returned at `if (!isReady)` created none
Cleanup == IF user = NoUser THEN channels ELSE RemoveChannel(channels, ChannelName(user))

\* the subscription effect re-runs because user?.id became u: the cleanup of
\* the previous run, then the channel of this run
Subscribe(u) ==
    channels' = (IF u = NoUser THEN Cleanup ELSE Append(Cleanup, ChannelName(u)))

\* SessionGate reports an identity; the subscription effect runs
Login ==
    /\ user = NoUser
    /\ user' = Me
    /\ Subscribe(Me)
    /\ IF ~initialFetched
       THEN FetchData(TRUE, TRUE, 0)
       ELSE UNCHANGED <<isFetchingRef, loading, error, reloads>>
    /\ loaded' = FALSE
    /\ ev' = Ev("login", 0, IF ~initialFetched THEN FetchRes(TRUE) ELSE "nofetch")
    /\ Spend
    /\ UNCHANGED <<remoteVars, storeVars, initialFetched, handlers, pageVars, gateVars>>

\* the logout effect without the reset of initialFetched (a variant C10 must tell apart)
ClearKeepingFlag ==
    /\ scans' = <<>>
    /\ validationHistory' = <<>>
    /\ totalUsers' = 0
    /\ initialFetched' = initialFetched
    /\ loading' = FALSE
    /\ error' = NoError

\* the effect that clears the cache when user becomes null
ClearOnLogout ==
    /\ scans' = <<>>
    /\ validationHistory' = <<>>
    /\ totalUsers' = 0
    /\ initialFetched' = FALSE
    /\ loading' = FALSE
    /\ error' = NoError

Logout ==
    /\ user # NoUser
    /\ user' = NoUser
    /\ Subscribe(NoUser)
    /\ ClearOnLogout
    /\ loaded' = FALSE
    /\ ev' = Ev("logout", 0, IF scans # <<>> THEN "purged" ELSE "empty")
    /\ Spend
    /\ UNCHANGED <<remoteVars, isFetchingRef, reloads, handlers, pageVars, gateVars>>

\* document.visibilitychange to visible
VisibilityChange ==
    /\ FetchData(user # NoUser, FALSE, 0)
    /\ ev' = Ev("visibility", 0, FetchRes(user # NoUser))
    /\ Spend
    /\ UNCHANGED <<user, channels, gateVars, remoteVars, storeVars, initialFetched, loaded, handlers, pageVars>>

\* the Try Again button, shown while error is set
Retry ==
    /\ error # NoError
    /\ FetchData(user # NoUser, TRUE, 0)
    /\ ev' = Ev("retry", 0, FetchRes(user # NoUser))
    /\ Spend
    /\ UNCHANGED <<user, channels, gateVars, remoteVars, storeVars, initialFetched, loaded, handlers, pageVars>>

\* a status callback that reloads whether or not a first reload has committed
\* (a variant C22 must tell apart)
ChannelDegradedAlways ==
    /\ user # NoUser
    /\ FetchData(user # NoUser, FALSE, 0)
    /\ ev' = Ev("degraded", 0, FetchRes(user # NoUser))
    /\ Spend
    /\ UNCHANGED <<user, channels, gateVars, remoteVars, storeVars, initialFetched, loaded, handlers, pageVars>>

\* the channel reports CHANNEL_ERROR, TIMED_OUT or CLOSED
ChannelDegraded ==
    /\ user # NoUser
    /\ IF initialFetched
       THEN FetchData(user # NoUser, FALSE, 0)
       ELSE UNCHANGED <<isFetchingRef, loading, error, reloads>>
    /\ ev' = Ev("degraded", 0, IF initialFetched THEN FetchRes(user # NoUser) ELSE "nofetch")
    /\ Spend
    /\ UNCHANGED <<user, channels, gateVars, remoteVars, storeVars, initialFetched, loaded, handlers, pageVars>>

\* the three bulk queries of Promise.all are answered (or one of them fails);
\* with rows that lack their expert's name fetchData awaits a second query
ReloadRespond ==
    \E r \in reloads : \E ok \in BOOLEAN :
        /\ r.pc = "fetching"
        /\ reloads' = (reloads \ {r}) \cup
              {[r EXCEPT !.pc = IF ok /\ MissingExpertIds(SelectValidations) # {}
                                THEN "profiles" ELSE "fetched",
                         !.snap = IF ok THEN [ok |-> TRUE, scans |-> SelectScans,
                                              vals |-> SelectValidations,
                                              count |-> rProfiles]
                                  ELSE NoSnap]}
        /\ ev' = Quiet
        /\ Free
        /\ UNCHANGED <<user, channels, gateVars, remoteVars, storeVars, loading, error, initialFetched,
                       isFetchingRef, loaded, handlers, pageVars>>

\* from("profiles").select(...).in("id", missingExpertIds) is answered: with an
\* error, or with the rows of those ids that the query can see
ReloadProfiles ==
    \E r \in reloads : \E ok \in BOOLEAN :
      \E seen \in SUBSET MissingExpertIds(r.snap.vals) :
        /\ r.pc = "profiles"
        /\ ok \/ seen = {}
        /\ reloads' = (reloads \ {r}) \cup
              {[r EXCEPT !.pc = "fetched",
                         !.fb = [asked |-> TRUE, ok |-> ok,
                                 profiles |-> {Profile(e) : e \in seen}]]}
        /\ ev' = Quiet
        /\ Free
        /\ UNCHANGED <<user, channels, gateVars, remoteVars, storeVars, loading, error, initialFetched,
                       isFetchingRef, loaded, handlers, pageVars>>

\* a catch block that also empties the store (a variant C31 must tell apart)
CommitReloadClearing(r) ==
    IF r.snap.ok
    THEN /\ scans' = r.snap.scans
         /\ validationHistory' = Patched(r.snap.vals, r.fb)
         /\ totalUsers' = r.snap.count
         /\ initialFetched' = TRUE
         /\ error' = error
    ELSE /\ error' = "Failed to load data"
         /\ scans' = <<>>
         /\ validationHistory' = <<>>
         /\ totalUsers' = 0
         /\ initialFetched' = FALSE

\* fetchData after the await: commit on success, setError on failure
CommitReload(r) ==
    IF r.snap.ok
    THEN /\ scans' = r.snap.scans
         /\ validationHistory' = Patched(r.snap.vals, r.fb)
         /\ totalUsers' = r.snap.count
         /\ initialFetched' = TRUE
         /\ error' = error
    ELSE /\ error' = "Failed to load data"
         /\ UNCHANGED <<scans, validationHistory, totalUsers, initialFetched>>

\* a fetchData whose catch path skips the reset of isFetchingRef
\* (a variant C32 must tell apart)
ReloadFinishKeepsFlag ==
    \E r \in reloads :
        /\ r.pc = "fetched"
        /\ CommitReload(r)
        /\ isFetchingRef' = ~r.snap.ok
        /\ loading' = FALSE
        /\ reloads' = reloads \ {r}
        /\ FinishSubmit(r.owner)
        /\ loaded' = (loaded \/ (r.snap.ok /\ user # NoUser))
        /\ ev' = Ev("reloadFinish", r.owner, IF r.snap.ok THEN "ok" ELSE "error")
        /\ Free
        /\ UNCHANGED <<user, channels, gateVars, remoteVars, handlers, decision, notes>>

\* fetchData from the resumption to its end (try tail, catch, finally), and the
\* continuation of the handleValidation that awaited it
ReloadFinish ==
    \E r \in reloads :
        /\ r.pc = "fetched"
        /\ CommitReload(r)
        /\ isFetchingRef' = FALSE
        /\ loading' = FALSE
        /\ reloads' = reloads \ {r}
        /\ FinishSubmit(r.owner)
        /\ loaded' = (loaded \/ (r.snap.ok /\ user # NoUser))
        /\ ev' = Ev("reloadFinish", r.owner, IF r.snap.ok THEN "ok" ELSE "error")
        /\ Free
        /\ UNCHANGED <<user, channels, gateVars, remoteVars, handlers, decision, notes>>

\* --------------------------------------------- DataProvider: change events
NoRow == [id |-> 0]

Handler(table, kind, id) ==
    [table |-> table, kind |-> kind, id |-> id, pc |-> "fetching",
     found |-> FALSE, row |-> NoRow]

\* the guard every postgres_changes callback starts with
HandlesEvents == initialFetched

\* a callback that awaits a point-fetch: the part before the await
StartHandler(table, kind, id) ==
    /\ user # NoUser
    /\ Cardinality(handlers) < MaxHandlers
    /\ handlers' = (IF HandlesEvents THEN handlers \cup {Handler(table, kind, id)}
                    ELSE handlers)
    /\ Deliver(Note(kind, table, id))
    /\ ev' = Ev(kind \o " " \o table, id, IF HandlesEvents THEN "fetch" ELSE "ignored")
    /\ Spend
    /\ UNCHANGED <<user, channels, gateVars, rScans, rVals, nextVid, rProfiles, profFeed, providerVars,
                   pageVars>>

\* INSERT on scans is notified (at least once, at any later time)
OnScanInsert ==
    \E id \in ScanIds :
        /\ rScans[id].st # "absent"
        /\ StartHandler("scans", "INSERT", id)

\* UPDATE on scans is notified
OnScanUpdate ==
    \E id \in ScanIds :
        /\ rScans[id].st # "absent"
        /\ StartHandler("scans", "UPDATE", id)

OnValidationInsert ==
    \E i \in 1..Len(rVals) :
        StartHandler("validation_history", "INSERT", rVals[i].id)

OnValidationUpdate ==
    \E i \in 1..Len(rVals) :
        StartHandler("validation_history", "UPDATE", rVals[i].id)

\* fetchScanWithProfile / fetchValidationWithRelations: .single() answers with the
\* row, or with an error (no row, or the transport failed) and the helper returns null
PointFetch ==
    \E h \in handlers : \E ok \in BOOLEAN :
        /\ h.pc = "fetching"
        /\ LET hit == IF h.table = "scans" THEN ok /\ LiveScan(h.id)
                      ELSE ok /\ RValKnown(h.id) /\ RVal(h.id).live
               row == IF ~hit THEN NoRow
                      ELSE IF h.table = "scans" THEN ScanRow(h.id)
                      ELSE ValRow(RVal(h.id))
           IN handlers' = (handlers \ {h}) \cup
                  {[h EXCEPT !.pc = "fetched", !.found = hit, !.row = row]}
        /\ owed' = (IF owed.on /\ ~ok THEN [owed EXCEPT !.lost = TRUE] ELSE owed)
        /\ ev' = Quiet
        /\ Free
        /\ UNCHANGED <<user, channels, gateVars, rScans, rVals, nextVid, rProfiles, profFeed, providerVars,
                       pageVars>>

\* an INSERT updater without the duplicate check (a variant C7 must tell apart)
InsertScanNoCheck(prev, fullScan) == <<fullScan>> \o prev

\* scans INSERT callback, the setScans updater
InsertScan(prev, fullScan) ==
    IF Some(prev, fullScan.id) THEN prev ELSE <<fullScan>> \o prev

\* an UPDATE updater that keeps a held entry (a variant C8 must tell apart)
UpsertScanKeep(prev, fullScan) ==
    IF Some(prev, fullScan.id) THEN prev ELSE <<fullScan>> \o prev

\* scans UPDATE callback, the setScans updater
UpsertScan(prev, fullScan) ==
    LET index == FindIndex(prev, fullScan.id)
    IN IF index = 0 THEN <<fullScan>> \o prev
       ELSE [prev EXCEPT ![index] = fullScan]

\* validation_history INSERT callback, the setValidationHistory updater
InsertValidation(prev, fullValidation) ==
    IF Some(prev, fullValidation.id) THEN prev ELSE <<fullValidation>> \o prev

\* validation_history UPDATE callback, the setValidationHistory updater
UpsertValidation(prev, fullValidation) ==
    LET index == FindIndex(prev, fullValidation.id)
    IN IF index = 0 THEN <<fullValidation>> \o prev
       ELSE [prev EXCEPT ![index] = fullValidation]

\* the validation_history callbacks without the update of the scan
\* (a variant C18 must tell apart)
ReflectNothing(prev, fullValidation) == prev

\* validation_history INSERT / UPDATE callbacks, the setScans updater
ReflectValidation(prev, fullValidation) ==
    LET index == FindIndex(prev, fullValidation.scan_id)
    IN IF index # 0
       THEN [prev EXCEPT ![index] =
                [@ EXCEPT !.status = IF fullValidation.status = Validated
                                     THEN Validated ELSE Corrected,
                          !.expert_validation = fullValidation.expert_validation]]
       ELSE prev

\* a missing row treated as a delete of the entry (a variant C20 must tell apart)
DropEventRemoving(h) ==
    /\ scans' = (IF h.table = "scans" THEN FilterOut(scans, h.id) ELSE scans)
    /\ validationHistory' = (IF h.table = "scans" THEN validationHistory
                             ELSE FilterOut(validationHistory, h.id))

\* if (fullScan) / if (fullValidation) is false: the callback ends
DropEvent(h) == UNCHANGED <<scans, validationHistory>>

\* the callback that resumes, as the outcome of the step names it
ApplyOp(h) == "apply " \o h.kind \o " " \o h.table

\* a callback after its await: both state updates land in one render
ApplyHandler ==
    \E h \in handlers :
        /\ h.pc = "fetched"
        /\ handlers' = handlers \ {h}
        /\ IF ~h.found THEN DropEvent(h)
           ELSE IF h.table = "scans"
           THEN /\ scans' = (IF h.kind = "INSERT" THEN InsertScan(scans, h.row)
                             ELSE UpsertScan(scans, h.row))
                /\ UNCHANGED validationHistory
           ELSE /\ validationHistory' =
                       (IF h.kind = "INSERT" THEN InsertValidation(validationHistory, h.row)
                        ELSE UpsertValidation(validationHistory, h.row))
                /\ scans' = ReflectValidation(scans, h.row)
        /\ ev' = Ev(ApplyOp(h), h.id,
                    IF ~h.found THEN "dropped"
                    ELSE IF ~Some(IF h.table = "scans" THEN scans ELSE validationHistory,
                                  h.id) THEN "added"
                    ELSE IF h.kind = "INSERT" THEN "kept" ELSE "replaced")
        /\ Free
        /\ UNCHANGED <<user, channels, gateVars, remoteVars, totalUsers, loading, error, initialFetched,
                       isFetchingRef, reloads, loaded, pageVars>>

\* scans DELETE callback
OnScanDelete ==
    \E id \in ScanIds :
        /\ user # NoUser
        /\ rScans[id].st = "gone"
        /\ scans' = (IF HandlesEvents THEN FilterOut(scans, id) ELSE scans)
        /\ Deliver(Note("DELETE", "scans", id))
        /\ ev' = Ev("DELETE scans", id, IF HandlesEvents THEN "applied" ELSE "ignored")
        /\ Spend
        /\ UNCHANGED <<user, channels, gateVars, rScans, rVals, nextVid, rProfiles, profFeed,
                       validationHistory, totalUsers, loading, error, initialFetched,
                       isFetchingRef, reloads, loaded, handlers, pageVars>>

\* validation_history DELETE callback
OnValidationDelete ==
    \E i \in 1..Len(rVals) :
        /\ user # NoUser
        /\ ~rVals[i].live
        /\ validationHistory' = (IF HandlesEvents
                                 THEN FilterOut(validationHistory, rVals[i].id)
                                 ELSE validationHistory)
        /\ ev' = Ev("DELETE validation_history", rVals[i].id,
                    IF HandlesEvents THEN "applied" ELSE "ignored")
        /\ Deliver(Note("DELETE", "validation_history", rVals[i].id))
        /\ Spend
        /\ UNCHANGED <<user, channels, gateVars, rScans, rVals, nextVid, rProfiles, profFeed, scans,
                       totalUsers, loading, error, initialFetched, isFetchingRef,
                       reloads, loaded, handlers, pageVars>>

\* a DELETE updater without the floor (a variant C23 must tell apart)
CountAfterDeleteNoFloor(prev) == prev - 1

\* profiles DELETE callback, the setTotalUsers updater: Math.max(0, prev - 1)
CountAfterDelete(prev) == IF prev - 1 > 0 THEN prev - 1 ELSE 0

\* profiles INSERT callback, the setTotalUsers updater
CountAfterInsert(prev) == prev + 1

\* profiles INSERT callback
OnProfileInsert ==
    /\ user # NoUser
    /\ profFeed.ins > 0
    /\ profFeed' = [profFeed EXCEPT !.ins = @ - 1]
    /\ totalUsers' = (IF HandlesEvents THEN CountAfterInsert(totalUsers) ELSE totalUsers)
    /\ ev' = Ev("INSERT profiles", 0, IF HandlesEvents THEN "applied" ELSE "ignored")
    /\ Spend
    /\ UNCHANGED <<user, channels, gateVars, rScans, rVals, nextVid, rProfiles, owed, scans, validationHistory,
                   loading, error, initialFetched, isFetchingRef, reloads, loaded,
                   handlers, pageVars>>

\* profiles DELETE callback
OnProfileDelete ==
    /\ user # NoUser
    /\ profFeed.del > 0
    /\ profFeed' = [profFeed EXCEPT !.del = @ - 1]
    /\ totalUsers' = (IF HandlesEvents THEN CountAfterDelete(totalUsers) ELSE totalUsers)
    /\ ev' = Ev("DELETE profiles", 0, IF HandlesEvents THEN "applied" ELSE "ignored")
    /\ Spend
    /\ UNCHANGED <<user, channels, gateVars, rScans, rVals, nextVid, rProfiles, owed, scans, validationHistory,
                   loading, error, initialFetched, isFetchingRef, reloads, loaded,
                   handlers, pageVars>>

\* ------------------------------------------- ValidatePage: handleValidation
Idle == [pc |-> "idle"]

FreeSlot(i) == submits[i].pc = "idle" /\ \A j \in 1..(i - 1) : submits[j].pc # "idle"

\* the in-flight guard at the head of handleValidation
Processing(scanId) == processingScanId = scanId

\* the scan handleValidation found: scans.find(scan => scan.id === scanId)
SelectedScan(scanId) == scans[FindIndex(scans, scanId)]

\* correctedInput && correctedInput.trim().length > 0 ? correctedInput.trim() : ""
CorrectedOf(scanId) ==
    IF decision[scanId] # NoDraft /\ Trim(decision[scanId]) # ""
    THEN Trim(decision[scanId]) ELSE ""

NoteOf(scanId) == IF notes[scanId] # NoDraft THEN notes[scanId] ELSE Null

\* a status that ignores the action (a variant C24 must tell apart)
StatusAlwaysValidated(action) == Validated

\* const status = action === "confirm" ? "Validated" : "Corrected"
StatusFor(action) == IF action = "confirm" THEN Validated ELSE Corrected

ExpertValidationFor(scanId, action) ==
    IF action = "confirm" THEN AiPrediction(scanId)
    ELSE IF CorrectedOf(scanId) # "" THEN CorrectedOf(scanId)
    ELSE AiPrediction(scanId)

\* the early returns without the corrected-value check (a variant C13 must tell apart)
RejectionAcceptsBlank(scanId, action) ==
    IF Processing(scanId) THEN "guarded"
    ELSE IF ~Some(scans, scanId) THEN "Scan not found"
    ELSE IF user = NoUser THEN "You must be signed in"
    ELSE ""

\* the early returns without the identity check (a variant C14 must tell apart)
RejectionIgnoresUser(scanId, action) ==
    IF Processing(scanId) THEN "guarded"
    ELSE IF ~Some(scans, scanId) THEN "Scan not found"
    ELSE IF action = "correct" /\ CorrectedOf(scanId) = "" THEN "Please select"
    ELSE ""

\* why handleValidation returns before any transport call ("" when it does not)
Rejection(scanId, action) ==
    IF Processing(scanId) THEN "guarded"
    ELSE IF ~Some(scans, scanId) THEN "Scan not found"
    ELSE IF user = NoUser THEN "You must be signed in"
    ELSE IF action = "correct" /\ CorrectedOf(scanId) = "" THEN "Please select"
    ELSE ""

\* handleValidation up to its first await (the scans update is issued)
HandleValidation ==
    \E i \in SubmitSlots : \E scanId \in ScanIds : \E action \in {"confirm", "correct"} :
        /\ FreeSlot(i)
        /\ IF Rejection(scanId, action) # ""
           THEN UNCHANGED <<processingScanId, submits>>
           ELSE /\ processingScanId' = scanId
                /\ submits' = [submits EXCEPT ![i] =
                      [pc |-> "scanUpdate", scanId |-> scanId, action |-> action,
                       status |-> StatusFor(action),
                       originalStatus |-> SelectedScan(scanId).status,
                       expertValidation |-> ExpertValidationFor(scanId, action),
                       note |-> NoteOf(scanId)]]
        /\ ev' = Ev("handleValidation " \o action, scanId, Rejection(scanId, action))
        /\ Spend
        /\ UNCHANGED <<user, channels, gateVars, remoteVars, providerVars, handlers, decision, notes>>

\* supabase.from("scans").update({status, updated_at}).eq("id", scanId) at the server
UpdateScanStatus(scanId, status) ==
    [rScans EXCEPT ![scanId] = IF @.st = "live"
                               THEN [@ EXCEPT !.status = status]
                               ELSE @]

\* a failed status transition after which the audit insert is still issued
\* (a variant C15 must tell apart)
SubmitAbortContinues(i) ==
    /\ submits' = [submits EXCEPT ![i].pc = "insert"]
    /\ processingScanId' = processingScanId

\* a finally block that clears the marker whatever it names
\* (a variant C33 must tell apart)
SubmitAbortClearsAny(i) ==
    /\ submits' = [submits EXCEPT ![i] = Idle]
    /\ processingScanId' = NoScan

\* the catch block when scanUpdated is false, then finally
SubmitAbort(i) ==
    /\ submits' = [submits EXCEPT ![i] = Idle]
    /\ processingScanId' = (IF processingScanId = submits[i].scanId
                            THEN NoScan ELSE processingScanId)

\* applyScanUpdate(updatePayload) returns
SubmitScanUpdate ==
    \E i \in SubmitSlots : \E ok \in BOOLEAN :
        /\ submits[i].pc = "scanUpdate"
        /\ IF ok
           THEN /\ rScans' = UpdateScanStatus(submits[i].scanId, submits[i].status)
                /\ submits' = [submits EXCEPT ![i].pc = "insert"]
                /\ UNCHANGED processingScanId
           ELSE /\ SubmitAbort(i)
                /\ UNCHANGED rScans
        /\ ev' = (IF ok THEN Quiet ELSE Ev("submitDone", i, "failure"))
        /\ Free
        /\ UNCHANGED <<user, channels, gateVars, rVals, nextVid, rProfiles, profFeed, owed, providerVars, handlers,
                       decision, notes>>

\* the rows of (scan_id, expert_id) rewritten by the update after a conflict
RECURSIVE Matching(_, _, _)
Matching(seq, sid, expert) ==
    IF seq = <<>> THEN <<>>
    ELSE (IF Head(seq).live /\ Head(seq).scan_id = sid /\ Head(seq).expert_id = expert
          THEN <<Head(seq)>> ELSE <<>>) \o Matching(Tail(seq), sid, expert)

RECURSIVE NotMatching(_, _, _)
NotMatching(seq, sid, expert) ==
    IF seq = <<>> THEN <<>>
    ELSE (IF Head(seq).live /\ Head(seq).scan_id = sid /\ Head(seq).expert_id = expert
          THEN <<>> ELSE <<Head(seq)>>) \o NotMatching(Tail(seq), sid, expert)

\* the payload written to validation_history by insert and by update
Payload(p, row) ==
    [row EXCEPT !.scan_id = p.scanId, !.expert_id = Me, !.status = p.status,
                !.ai_prediction = AiPrediction(p.scanId),
                !.expert_validation = p.expertValidation]

RECURSIVE Rewritten(_, _)
Rewritten(seq, p) ==
    IF seq = <<>> THEN <<>>
    ELSE <<Payload(p, Head(seq))>> \o Rewritten(Tail(seq), p)

\* a success path whose refreshData throws into the catch block
\* (a variant C17 must tell apart)
SuccessThenRollback(i) ==
    /\ scans' = FilterOut(scans, submits[i].scanId)
    /\ decision' = [decision EXCEPT ![submits[i].scanId] = NoDraft]
    /\ notes' = [notes EXCEPT ![submits[i].scanId] = NoDraft]
    /\ FetchData(TRUE, FALSE, 0)
    /\ submits' = [submits EXCEPT ![i].pc = "rollback"]
    /\ UNCHANGED processingScanId

\* toast.success ... await refreshData(): the success path up to its await.
\* refreshData is the fetchData of the render that created this handleValidation,
\* in which the user was signed in.
SuccessPath(i) ==
    /\ scans' = FilterOut(scans, submits[i].scanId)
    /\ decision' = [decision EXCEPT ![submits[i].scanId] = NoDraft]
    /\ notes' = [notes EXCEPT ![submits[i].scanId] = NoDraft]
    /\ FetchData(TRUE, FALSE, i)
    /\ IF FetchGuard(TRUE)
       THEN /\ submits' = [submits EXCEPT ![i].pc = "refresh"]
            /\ UNCHANGED processingScanId
       ELSE SubmitAbort(i)

\* a catch block that also takes the scan out of the local collection
\* (a variant C16 must tell apart)
StartRollbackRemoving(i) ==
    /\ submits' = [submits EXCEPT ![i].pc = "rollback"]
    /\ scans' = FilterOut(scans, submits[i].scanId)
    /\ UNCHANGED <<decision, notes, isFetchingRef, loading, error, reloads,
                   processingScanId>>

\* a catch block that ends the submit with no rollback and no toast
\* (a variant C28 must tell apart)
StartRollbackSilent(i) ==
    /\ SubmitAbort(i)
    /\ UNCHANGED <<scans, decision, notes, isFetchingRef, loading, error, reloads>>

\* the catch block when scanUpdated is true: the rollback is issued
StartRollback(i) ==
    /\ submits' = [submits EXCEPT ![i].pc = "rollback"]
    /\ UNCHANGED <<scans, decision, notes, isFetchingRef, loading, error, reloads,
                   processingScanId>>

\* a conflict handled like any other insert error (a variant C12 must tell apart)
OnConflictThrow(i) ==
    /\ submits' = [submits EXCEPT ![i].pc = "rollback"]
    /\ UNCHANGED <<scans, decision, notes, isFetchingRef, loading, error, reloads,
                   processingScanId>>

\* historyError.code === "23505": the update keyed by (scan_id, expert_id) is issued
OnConflict(i) ==
    /\ submits' = [submits EXCEPT ![i].pc = "historyUpdate"]
    /\ UNCHANGED <<scans, decision, notes, isFetchingRef, loading, error, reloads,
                   processingScanId>>

\* insert(insertPayload) returns: the row is written, or 23505, or another error
SubmitInsert ==
    \E i \in SubmitSlots : \E ok \in BOOLEAN :
        /\ submits[i].pc = "insert"
        /\ LET p == submits[i]
               conflict == HasValOf(p.scanId, Me)
               written == ok /\ ~conflict /\ nextVid <= MaxVid
                          /\ rScans[p.scanId].st = "live"
           IN /\ IF written
                 THEN /\ rVals' = <<Payload(p, [id |-> nextVid, live |-> TRUE, joined |-> TRUE,
                                                scan_id |-> 0,
                                                expert_id |-> "", status |-> "",
                                                expert_validation |-> "",
                                                ai_prediction |-> ""])>> \o rVals
                      /\ nextVid' = nextVid + 1
                      /\ SuccessPath(i)
                 ELSE IF ok /\ conflict
                 THEN /\ OnConflict(i)
                      /\ UNCHANGED <<rVals, nextVid>>
                 ELSE /\ StartRollback(i)
                      /\ UNCHANGED <<rVals, nextVid>>
              /\ ev' = (IF written THEN Ev("audit", i, "success")
                        ELSE IF ok /\ conflict THEN Ev("audit", i, "conflict")
                        ELSE Quiet)
        /\ Free
        /\ UNCHANGED <<user, channels, gateVars, rScans, rProfiles, profFeed, owed, validationHistory, totalUsers,
                       initialFetched, loaded, handlers>>

\* update(insertPayload).eq(scan_id).eq(expert_id) returns
SubmitHistoryUpdate ==
    \E i \in SubmitSlots : \E ok \in BOOLEAN :
        /\ submits[i].pc = "historyUpdate"
        /\ LET p == submits[i]
           IN IF ok
              THEN /\ rVals' = Rewritten(Matching(rVals, p.scanId, Me), p)
                                  \o NotMatching(rVals, p.scanId, Me)
                   /\ SuccessPath(i)
              ELSE /\ StartRollback(i)
                   /\ UNCHANGED rVals
        /\ ev' = (IF ok THEN Ev("audit", i, "success") ELSE Quiet)
        /\ Free
        /\ UNCHANGED <<user, channels, gateVars, rScans, nextVid, rProfiles, profFeed, owed, validationHistory,
                       totalUsers, initialFetched, loaded, handlers>>

RollbackToPending(p) == Pending

\* rollbackPayload.status
RollbackStatus(p) == p.originalStatus

\* applyScanUpdate(rollbackPayload) returns; toast.error; finally
SubmitRollback ==
    \E i \in SubmitSlots : \E ok \in BOOLEAN :
        /\ submits[i].pc = "rollback"
        /\ rScans' = (IF ok THEN UpdateScanStatus(submits[i].scanId,
                                                  RollbackStatus(submits[i]))
                      ELSE rScans)
        /\ SubmitAbort(i)
        /\ ev' = Ev("submitDone", i, IF ok THEN "rolled back" ELSE "rollback failed")
        /\ Free
        /\ UNCHANGED <<user, channels, gateVars, rVals, nextVid, rProfiles, profFeed, owed, providerVars, handlers,
                       decision, notes>>

\* the expert types into (or clears) the decision box of a listed scan
SetDecision ==
    \E scanId \in ScanIds : \E v \in {Blank, DraftValue} :
        /\ Some(scans, scanId)
        /\ decision[scanId] # v
        /\ decision' = [decision EXCEPT ![scanId] = v]
        /\ ev' = Quiet
        /\ Spend
        /\ UNCHANGED <<user, channels, gateVars, remoteVars, providerVars, handlers, processingScanId, notes,
                       submits>>

Environment == ExtInsertScan \/ ExtDeleteScan \/ ExtDeleteValidation

Profiles == ExtInsertProfile \/ ExtDeleteProfile \/ OnProfileInsert \/ OnProfileDelete

Session == Login \/ Logout

Reload == VisibilityChange \/ Retry \/ ChannelDegraded \/ ReloadRespond \/ ReloadFinish

ChangeEvents ==
    \/ OnScanInsert
    \/ OnScanUpdate
    \/ OnScanDelete
    \/ OnValidationInsert
    \/ OnValidationUpdate
    \/ OnValidationDelete
    \/ PointFetch
    \/ ApplyHandler

Submit ==
    \/ HandleValidation
    \/ SubmitScanUpdate
    \/ SubmitInsert
    \/ SubmitHistoryUpdate
    \/ SubmitRollback
    \/ SetDecision

Next == Environment \/ Session \/ Reload \/ ChangeEvents \/ Submit

Spec == Init /\ [][Next]_vars

\* the validation workflow with the reloads it triggers, no change feed
NextSubmit == ExtInsertScan \/ Session \/ Reload \/ Submit

SpecSubmit == Init /\ [][NextSubmit]_vars

\* every transport call is answered: a promise that is awaited settles, and its
\* continuation then runs
SpecSubmitFair ==
    /\ SpecSubmit
    /\ WF_vars(SubmitScanUpdate)
    /\ WF_vars(SubmitInsert)
    /\ WF_vars(SubmitHistoryUpdate)
    /\ WF_vars(SubmitRollback)
    /\ WF_vars(ReloadRespond)
    /\ WF_vars(ReloadFinish)

\* ------------------------------------------ UserProvider and AuthGuard
\* the DataProvider's effects when the UserProvider commits user = u: the
\* subscription effect (cleanup, first fetch, channel) and the logout effect
ProviderSees(u) ==
    IF u = user THEN UNCHANGED <<channels, providerVars>>
    ELSE /\ Subscribe(u)
         /\ loaded' = FALSE
         /\ IF u = NoUser
            THEN ClearOnLogout /\ UNCHANGED <<isFetchingRef, reloads>>
            ELSE /\ IF ~initialFetched
                    THEN FetchData(TRUE, TRUE, 0)
                    ELSE UNCHANGED <<isFetchingRef, loading, error, reloads>>
                 /\ UNCHANGED <<storeVars, initialFetched>>

\* a render gate that does not look at the role (a variant C37 must tell apart)
RendersAnyRole(l, u, p) ==
    IF l THEN "spinner" ELSE IF u = NoUser THEN "nothing" ELSE "children"

\* AuthGuard's render gate
Renders(l, u, p) ==
    IF l THEN "spinner"
    ELSE IF u = NoUser \/ (p # NoUserProfile /\ p.role # "expert") THEN "nothing"
    ELSE "children"

\* AuthGuard's effect reaches router.replace("/login")
GuardRedirects(l, u, p) ==
    ~l /\ (u = NoUser \/ (p # NoUserProfile /\ p.role # "expert"))

\* AuthGuard's effect after a commit of (l, u, p), with the sessionStorage item
\* as the handler left it; the effect runs only while the guard is mounted, and
\* the navigation it asks for completes later
AuthGuardEffect(mounted, l, u, p, sup) ==
    IF mounted /\ GuardRedirects(l, u, p)
    THEN /\ route' = "leaving"
         /\ suppressAuthToast' = (IF u = NoUser THEN FALSE ELSE sup)
    ELSE /\ route' = (IF route = "login" /\ mounted THEN "dashboard" ELSE route)
         /\ suppressAuthToast' = sup

GuardRes(mounted, l, u, p, sup) ==
    IF ~mounted THEN "unmounted"
    ELSE IF ~GuardRedirects(l, u, p) THEN Renders(l, u, p)
    ELSE IF u # NoUser THEN "role toast"
    ELSE IF sup THEN "silent" ELSE "login toast"

Mounted == route # "login"

\* the finally block of getInitialSession or of the auth-state callback
LoadingAfter(r) ==
    IF r.kind = "initial" \/ (r.kind = "auth" /\ r.spinner) THEN FALSE ELSE sessionLoading

ResolvedAfter(r) == IF r.kind \in {"initial", "auth"} THEN TRUE ELSE initialResolved

\* resolveSession(sessionUser) from its start to the await of the profile
\* query, or to its end when there is no session user, for the caller r
ResolveSession(r, sessionUser, others) ==
    /\ user' = sessionUser
    /\ ProviderSees(sessionUser)
    /\ IF sessionUser = NoUser
       THEN /\ profile' = NoUserProfile
            /\ sessionLoading' = LoadingAfter(r)
            /\ initialResolved' = ResolvedAfter(r)
            /\ resolutions' = others
       ELSE /\ profile' = profile
            /\ sessionLoading' = (r.spinner \/ sessionLoading)
            /\ initialResolved' = initialResolved
            /\ resolutions' = others \cup
                  {Resolution(r.kind, "profile", sessionUser, r.spinner)}
    /\ AuthGuardEffect(Mounted, sessionLoading', sessionUser, profile', suppressAuthToast)
    /\ ev' = Ev(r.kind, 0,
                GuardRes(Mounted, sessionLoading', sessionUser, profile', suppressAuthToast))

\* the onAuthStateChange callback, called with the session the client holds
AuthStateChange ==
    /\ Cardinality(resolutions) < MaxResolutions
    /\ ResolveSession(Resolution("auth", "start", NoUser, ~initialResolved), auth,
                      resolutions)
    /\ auth' = auth
    /\ Spend
    /\ UNCHANGED <<remoteVars, handlers, pageVars>>

\* supabase.auth.getSession() of getInitialSession or of handleVisibilityChange
\* returns the session the client holds, or throws
GetSessionReturns ==
    \E r \in resolutions : \E ok \in BOOLEAN :
        /\ r.pc = "getSession"
        /\ IF ok
           THEN ResolveSession(r, auth, resolutions \ {r})
           ELSE /\ sessionLoading' = LoadingAfter(r)
                /\ initialResolved' = ResolvedAfter(r)
                /\ resolutions' = resolutions \ {r}
                /\ AuthGuardEffect(Mounted, sessionLoading', user, profile,
                                   suppressAuthToast)
                /\ ev' = Ev(r.kind, 0, "error")
                /\ UNCHANGED <<user, profile, channels, providerVars>>
        /\ auth' = auth
        /\ Free
        /\ UNCHANGED <<remoteVars, handlers, pageVars>>

\* fetchProfile after its await, then the rest of resolveSession's caller
FetchProfileReturns ==
    \E r \in resolutions : \E found \in BOOLEAN :
        /\ r.pc = "profile"
        /\ profile' = (IF found THEN UserProfile(r.sessionUser) ELSE NoUserProfile)
        /\ sessionLoading' = LoadingAfter(r)
        /\ initialResolved' = ResolvedAfter(r)
        /\ resolutions' = resolutions \ {r}
        /\ AuthGuardEffect(Mounted, sessionLoading', user, profile', suppressAuthToast)
        /\ ev' = Ev("profile", 0,
                    GuardRes(Mounted, sessionLoading', user, profile', suppressAuthToast))
        /\ Free
        /\ UNCHANGED <<user, auth, channels, providerVars, remoteVars, handlers, pageVars>>

\* logout() up to the await of signOut, called from the dashboard's menu
SessionLogout ==
    /\ Mounted
    /\ Renders(sessionLoading, user, profile) = "children"
    /\ Cardinality(resolutions) < MaxResolutions
    /\ user' = NoUser
    /\ profile' = NoUserProfile
    /\ ProviderSees(NoUser)
    /\ resolutions' = resolutions \cup {Resolution("signOut", "signOut", NoUser, FALSE)}
    /\ AuthGuardEffect(Mounted, sessionLoading, NoUser, NoUserProfile, TRUE)
    /\ ev' = Ev("logout", 0, GuardRes(Mounted, sessionLoading, NoUser, NoUserProfile, TRUE))
    /\ Spend
    /\ UNCHANGED <<auth, sessionLoading, initialResolved, remoteVars, handlers, pageVars>>

\* supabase.auth.signOut() returns: the client's session is gone, or the call
\* failed and logout's catch swallowed it; handleLogout, which awaited
\* logout(), then asks for the login page
SignOutReturns ==
    \E r \in resolutions : \E ok \in BOOLEAN :
        /\ r.pc = "signOut"
        /\ auth' = (IF ok THEN NoUser ELSE auth)
        /\ resolutions' = resolutions \ {r}
        /\ route' = (IF Mounted THEN "leaving" ELSE route)
        /\ ev' = Ev("signOut", 0, IF ok THEN "ok" ELSE "error")
        /\ Free
        /\ UNCHANGED <<user, channels, profile, sessionLoading, initialResolved,
                       suppressAuthToast, providerVars, remoteVars, handlers, pageVars>>

\* the navigation that router.replace("/login") asked for completes: the
\* guard unmounts
Redirected ==
    /\ route = "leaving"
    /\ route' = "login"
    /\ ev' = Quiet
    /\ Free
    /\ UNCHANGED <<user, channels, auth, profile, sessionLoading, initialResolved,
                   resolutions, suppressAuthToast, providerVars, remoteVars, handlers,
                   pageVars>>

\* document.visibilitychange to visible: the UserProvider's listener starts a
\* session refresh and the DataProvider's listener calls fetchData()
SessionVisibilityChange ==
    /\ Cardinality(resolutions) < MaxResolutions
    /\ resolutions' = resolutions \cup {Resolution("visibility", "getSession", NoUser, FALSE)}
    /\ FetchData(user # NoUser, FALSE, 0)
    /\ ev' = Ev("visibility", 0, FetchRes(user # NoUser))
    /\ Spend
    /\ UNCHANGED <<user, channels, auth, profile, sessionLoading, initialResolved, route,
                   suppressAuthToast, storeVars, initialFetched, loaded, remoteVars,
                   handlers, pageVars>>

\* the login page signs an account in, or another tab does
SignIn ==
    \E u \in Users :
        /\ auth # u
        /\ auth' = u
        /\ ev' = Quiet
        /\ Spend
        /\ UNCHANGED <<user, channels, profile, sessionLoading, initialResolved,
                       resolutions, route, suppressAuthToast, providerVars, remoteVars,
                       handlers, pageVars>>

\* the browser goes from the login page to a page inside AuthGuard: the guard
\* mounts and its effect runs
Navigate ==
    /\ route = "login"
    /\ AuthGuardEffect(TRUE, sessionLoading, user, profile, suppressAuthToast)
    /\ ev' = Ev("navigate", 0,
                GuardRes(TRUE, sessionLoading, user, profile, suppressAuthToast))
    /\ Spend
    /\ UNCHANGED <<user, channels, auth, profile, sessionLoading, initialResolved,
                   resolutions, providerVars, remoteVars, handlers, pageVars>>

\* the UserProvider has mounted: getInitialSession awaits getSession, the
\* auth client may hold a persisted session
InitSession ==
    /\ user = NoUser
    /\ rScans = [id \in ScanIds |->
                    [st |-> IF id = 1 THEN "live" ELSE "absent",
                     status |-> Pending]]
    /\ rVals = <<>>
    /\ nextVid = 1
    /\ rProfiles = 1
    /\ profFeed = [ins |-> 0, del |-> 0]
    /\ owed = [on |-> FALSE, notes |-> {}, lost |-> FALSE]
    /\ scans = <<>>
    /\ validationHistory = <<>>
    /\ totalUsers = 0
    /\ loading = TRUE
    /\ error = NoError
    /\ initialFetched = FALSE
    /\ isFetchingRef = FALSE
    /\ reloads = {}
    /\ handlers = {}
    /\ processingScanId = NoScan
    /\ decision = [id \in ScanIds |-> NoDraft]
    /\ notes = [id \in ScanIds |-> NoDraft]
    /\ submits = [i \in SubmitSlots |-> [pc |-> "idle"]]
    /\ ev = Quiet
    /\ acts = 0
    /\ loaded = FALSE
    /\ channels = <<>>
    /\ auth \in {NoUser} \cup Users
    /\ profile = NoUserProfile
    /\ sessionLoading = TRUE
    /\ initialResolved = FALSE
    /\ resolutions = {Resolution("initial", "getSession", NoUser, FALSE)}
    /\ route = "dashboard"
    /\ suppressAuthToast = FALSE

NextSession ==
    \/ AuthStateChange \/ GetSessionReturns \/ FetchProfileReturns
    \/ SessionLogout \/ SignOutReturns \/ SessionVisibilityChange
    \/ SignIn \/ Navigate \/ Redirected
    \/ ReloadRespond \/ ReloadFinish

SpecSession == InitSession /\ [][NextSession]_vars

\* the derived count
NextCount == Session \/ Reload \/ Profiles

SpecCount == Init /\ [][NextCount]_vars

\* the delete handlers on a store loaded with two validated scans and three
\* validation records (one of them by another expert), with the derived count
InitDelete ==
    /\ user = NoUser
    /\ rScans = [id \in ScanIds |-> [st |-> "live", status |-> Validated]]
    /\ rVals = <<[id |-> 3, scan_id |-> 2, expert_id |-> Me, status |-> Validated,
                  expert_validation |-> AiPrediction(2),
                  ai_prediction |-> AiPrediction(2), joined |-> TRUE, live |-> TRUE],
                 [id |-> 2, scan_id |-> 1, expert_id |-> "expert2", status |-> Corrected,
                  expert_validation |-> Trim(DraftValue),
                  ai_prediction |-> AiPrediction(1), joined |-> TRUE, live |-> TRUE],
                 [id |-> 1, scan_id |-> 1, expert_id |-> Me, status |-> Validated,
                  expert_validation |-> AiPrediction(1),
                  ai_prediction |-> AiPrediction(1), joined |-> TRUE, live |-> TRUE]>>
    /\ nextVid = 4
    /\ rProfiles = 1
    /\ profFeed = [ins |-> 0, del |-> 0]
    /\ owed = [on |-> FALSE, notes |-> {}, lost |-> FALSE]
    /\ scans = <<>>
    /\ validationHistory = <<>>
    /\ totalUsers = 0
    /\ loading = TRUE
    /\ error = NoError
    /\ initialFetched = FALSE
    /\ isFetchingRef = FALSE
    /\ reloads = {}
    /\ handlers = {}
    /\ processingScanId = NoScan
    /\ decision = [id \in ScanIds |-> NoDraft]
    /\ notes = [id \in ScanIds |-> NoDraft]
    /\ submits = [i \in SubmitSlots |-> [pc |-> "idle"]]
    /\ ev = Quiet
    /\ acts = 0
    /\ loaded = FALSE
    /\ SessionSettled

NextDelete ==
    \/ Session
    \/ Reload
    \/ ExtDeleteScan
    \/ ExtDeleteValidation
    \/ OnScanDelete
    \/ OnValidationDelete
    \/ Profiles

SpecDelete == InitDelete /\ [][NextDelete]_vars

\* The event stream alone: the expert is signed in, the first reload has committed
\* the remote tables as they are, and from then on other people's changes and
\* their notifications arrive, each notification once.
InitConverge ==
    /\ user = Me
    /\ rScans = [id \in ScanIds |->
                    [st |-> IF id = 1 THEN "live" ELSE "absent",
                     status |-> IF id = 1 THEN Corrected ELSE Pending]]
    /\ rVals = <<[id |-> 1, scan_id |-> 1, expert_id |-> "expert2", status |-> Corrected,
                  expert_validation |-> Trim(DraftValue),
                  ai_prediction |-> AiPrediction(1), joined |-> TRUE, live |-> TRUE]>>
    /\ nextVid = 2
    /\ rProfiles = 1
    /\ profFeed = [ins |-> 0, del |-> 0]
    /\ owed = [on |-> TRUE, notes |-> {}, lost |-> FALSE]
    /\ scans = SelectScans
    /\ validationHistory = SelectValidations
    /\ totalUsers = rProfiles
    /\ loading = FALSE
    /\ error = NoError
    /\ initialFetched = TRUE
    /\ isFetchingRef = FALSE
    /\ reloads = {}
    /\ handlers = {}
    /\ processingScanId = NoScan
    /\ decision = [id \in ScanIds |-> NoDraft]
    /\ notes = [id \in ScanIds |-> NoDraft]
    /\ submits = [i \in SubmitSlots |-> [pc |-> "idle"]]
    /\ ev = Quiet
    /\ acts = 0
    /\ loaded = TRUE
    /\ SessionSettled

NextConverge ==
    \/ ExtInsertScan
    \/ ExtDeleteScan
    \/ ExtDeleteValidation
    \/ OnScanInsert
    \/ OnScanDelete
    \/ OnValidationDelete
    \/ PointFetch
    \/ ApplyHandler

SpecConverge == InitConverge /\ [][NextConverge]_vars

\* The reload over rows whose embedded expert profile is incomplete: a row with
\* no expert, a row with its profile embedded, a row with an expert and no
\* embedded profile, and a row whose embedded profile has no full_name.
InitJoin ==
    /\ user = NoUser
    /\ rScans = [id \in ScanIds |-> [st |-> "live", status |-> Validated]]
    /\ rVals = <<[id |-> 4, scan_id |-> 2, expert_id |-> Null, status |-> Validated,
                  expert_validation |-> AiPrediction(2),
                  ai_prediction |-> AiPrediction(2), joined |-> FALSE, live |-> TRUE],
                 [id |-> 3, scan_id |-> 2, expert_id |-> Me, status |-> Validated,
                  expert_validation |-> AiPrediction(2),
                  ai_prediction |-> AiPrediction(2), joined |-> TRUE, live |-> TRUE],
                 [id |-> 2, scan_id |-> 1, expert_id |-> "expert2", status |-> Corrected,
                  expert_validation |-> Trim(DraftValue),
                  ai_prediction |-> AiPrediction(1), joined |-> FALSE, live |-> TRUE],
                 [id |-> 1, scan_id |-> 1, expert_id |-> Nameless, status |-> Validated,
                  expert_validation |-> AiPrediction(1),
                  ai_prediction |-> AiPrediction(1), joined |-> TRUE, live |-> TRUE]>>
    /\ nextVid = 5
    /\ rProfiles = 1
    /\ profFeed = [ins |-> 0, del |-> 0]
    /\ owed = [on |-> FALSE, notes |-> {}, lost |-> FALSE]
    /\ scans = <<>>
    /\ validationHistory = <<>>
    /\ totalUsers = 0
    /\ loading = TRUE
    /\ error = NoError
    /\ initialFetched = FALSE
    /\ isFetchingRef = FALSE
    /\ reloads = {}
    /\ handlers = {}
    /\ processingScanId = NoScan
    /\ decision = [id \in ScanIds |-> NoDraft]
    /\ notes = [id \in ScanIds |-> NoDraft]
    /\ submits = [i \in SubmitSlots |-> [pc |-> "idle"]]
    /\ ev = Quiet
    /\ acts = 0
    /\ loaded = FALSE
    /\ SessionSettled

NextJoin == Session \/ Reload \/ ReloadProfiles \/ ExtDeleteValidation

SpecJoin == InitJoin /\ [][NextJoin]_vars

\* every query of fetchData is answered, and its continuation then runs
SpecJoinFair ==
    /\ SpecJoin
    /\ WF_vars(ReloadRespond)
    /\ WF_vars(ReloadProfiles)
    /\ WF_vars(ReloadFinish)

\* ------------------------------------------------------------------ claims
\* the submit of slot i ends in this step with a failure after its status
\* transition had been written
FailedAfterTransition(i) ==
    /\ submits[i].pc = "rollback"
    /\ submits'[i].pc = "idle"
    /\ ev'.op = "submitDone"
    /\ ev'.id = i

\* C1 as claimed: whenever the status transition succeeded and the audit step then
\* failed, the scan's remote status once the submit has finished is the status it
\* had before the call.
C1_AlwaysRolledBack ==
    [][\A i \in SubmitSlots :
          (FailedAfterTransition(i) /\ LiveScan(submits[i].scanId))
             => rScans'[submits[i].scanId].status = submits[i].originalStatus]_vars

\* C1 amended: an audit failure after the status transition always issues the
\* compensating write (the submit does not end before it returns); when that write
\* succeeds the scan's remote status is the status the local store held for the
\* scan when the submit began; when it fails nothing more is written.
C1_RollbackWhenCompensated ==
    [][\A i \in SubmitSlots :
          /\ (submits[i].pc \in {"insert", "historyUpdate"} /\ submits'[i].pc = "idle")
                => (ev' = Ev("audit", i, "success"))
          /\ (submits[i].pc \in {"insert", "historyUpdate"}
              /\ submits'[i].pc \notin {"idle", "refresh", "historyUpdate", submits[i].pc})
                => (submits'[i].pc = "rollback" /\ rScans' = rScans)
          /\ (FailedAfterTransition(i) /\ ev'.res = "rolled back"
              /\ LiveScan(submits[i].scanId))
                => rScans'[submits[i].scanId].status = submits[i].originalStatus
          /\ (FailedAfterTransition(i) /\ ev'.res = "rollback failed")
                => rScans' = rScans]_vars

\* C1 witness: a compensating write has just restored a status other than Pending
\* Validation (the scan had been validated before this submit).
C1_Witness ==
    \E i \in SubmitSlots : \E id \in ScanIds :
        /\ ev = Ev("submitDone", i, "rolled back")
        /\ rScans[id].status = Validated
        /\ HasValOf(id, Me)

\* the submit of slot i returns in this step after its success notification: the
\* refreshData it awaited has finished, or was dropped at once
ReturnsSuccess(i) ==
    /\ submits[i].pc \in {"insert", "historyUpdate", "refresh"}
    /\ submits'[i].pc = "idle"
    /\ \/ ev' = Ev("audit", i, "success")
       \/ ev'.op = "reloadFinish" /\ ev'.id = i

\* a live validation_history row of (scan, acting expert) with this outcome
HasAudit(vals, sid, status, determination) ==
    \E k \in 1..Len(vals) :
        /\ vals[k].live
        /\ vals[k].scan_id = sid
        /\ vals[k].expert_id = Me
        /\ vals[k].status = status
        /\ vals[k].expert_validation = determination

InPendingView(list, sid) ==
    \E k \in 1..Len(list) : list[k].id = sid /\ list[k].status = Pending

\* C2 as claimed: when a submit(scanId, confirm) that ended in success returns, the
\* remote scan is Validated, a ValidationRecord of (scanId, expert) exists with status
\* Validated and the scan's prediction as determination, and the scan is not in the
\* pending subset of the local collection.
C2_ConfirmPostcondition ==
    [][\A i \in SubmitSlots :
          (ReturnsSuccess(i) /\ submits[i].action = "confirm")
             => /\ rScans'[submits[i].scanId].status = Validated
                /\ HasAudit(rVals', submits[i].scanId, Validated,
                            AiPrediction(submits[i].scanId))
                /\ ~InPendingView(scans', submits[i].scanId)]_vars

\* C4 as claimed: no two outstanding submits are for the same scan.
C4_OneSubmitPerScan ==
    \A i, j \in SubmitSlots :
        (i # j /\ submits[i].pc # "idle" /\ submits[j].pc # "idle")
            => submits[i].scanId # submits[j].scanId

\* -------------------------------------------------------------------- C3
\* the validation records the store holds for a scan, newest first
RecordsOf(sid) == SelectSeq(validationHistory, LAMBDA v : v.scan_id = sid)

\* C3 as claimed: each local scan's status is the status of the most recent
\* ValidationRecord the store holds for it, or Pending Validation if it holds none.
C3_StatusFollowsLatestRecord ==
    \A k \in 1..Len(scans) :
        scans[k].status = (IF RecordsOf(scans[k].id) = <<>> THEN Pending
                           ELSE Head(RecordsOf(scans[k].id)).status)

\* -------------------------------------------------------------------- C5
\* C5: at most one reload is in flight and the flag says so; a reload requested
\* meanwhile is dropped without touching the provider; a reload starts only when
\* none is running, and when the running one finishes none is left to run.
C5_OneReloadInFlight ==
    /\ [](Cardinality(reloads) <= 1 /\ (isFetchingRef <=> reloads # {}))
    /\ [][/\ (ev'.res = "dropped" /\ isFetchingRef) => UNCHANGED providerVars
          /\ (\E r \in reloads' \ reloads : r.pc = "fetching")
                => (~isFetchingRef /\ reloads = {})
          /\ ev'.op = "reloadFinish" => (reloads' = {} /\ ~isFetchingRef')]_vars

\* a reload was requested while another was running, with the identity present
C5_Witness ==
    /\ ev.res = "dropped"
    /\ user # NoUser
    /\ isFetchingRef
    /\ \E r \in reloads : r.pc = "fetched"

\* -------------------------------------------------------------------- C6
\* the step delivers a change notification to its callback
Delivers ==
    ev'.op \in {"INSERT scans", "UPDATE scans", "DELETE scans",
                "INSERT validation_history", "UPDATE validation_history",
                "DELETE validation_history", "INSERT profiles", "DELETE profiles"}

\* C6 as claimed: a notification that arrives when no reload has completed
\* successfully since the identity last became present changes neither collection
\* nor the count and issues no point-fetch.
C6_IgnoredBeforeFirstLoad ==
    [][(Delivers /\ ~loaded)
          => (ev'.res = "ignored" /\ UNCHANGED <<storeVars, handlers>>)]_vars

\* -------------------------------------------------------------------- C7
NoDup(seq) == \A i, j \in 1..Len(seq) : seq[i].id = seq[j].id => i = j

\* C7: neither local collection holds two entries with the same id.
C7_NoDuplicateIds == NoDup(scans) /\ NoDup(validationHistory)

\* an INSERT was applied for an id the collection already held
C7_Witness == ev.op = "apply INSERT scans" /\ ev.res = "kept" /\ Some(scans, ev.id)

\* -------------------------------------------------------------------- C8
Entry(seq, id) == seq[FindIndex(seq, id)]

\* the callback h applies its fetched row in this step
Applies(h) ==
    /\ h.pc = "fetched"
    /\ h.found
    /\ handlers' = handlers \ {h}
    /\ ev'.op = ApplyOp(h)

\* the collection the callback h writes its row to, before and after the step
Before(h) == IF h.table = "scans" THEN scans ELSE validationHistory

After(h) == IF h.table = "scans" THEN scans' ELSE validationHistory'

\* C8 as claimed: after an applied insert or update event the entry held for its
\* identity is the record that event carried.
C8_LastEventWins ==
    [][\A h \in handlers : Applies(h) => Entry(After(h), h.id) = h.row]_vars

\* C8: an applied update event leaves its record as the entry of its identity; an
\* applied insert event does so when the identity was not held, and leaves the
\* held entry as it was otherwise.
C8_UpdateOverwritesInsertKeeps ==
    [][\A h \in handlers : Applies(h) =>
          /\ Some(After(h), h.id)
          /\ (h.kind = "UPDATE" \/ ~Some(Before(h), h.id))
                => Entry(After(h), h.id) = h.row
          /\ (h.kind = "INSERT" /\ Some(Before(h), h.id))
                => Entry(After(h), h.id) = Entry(Before(h), h.id)]_vars

\* an update event replaced a held scan by a row that differs from it
C8_Witness ==
    /\ ev.op = "apply UPDATE scans"
    /\ ev.res = "replaced"
    /\ \E k \in 1..Len(scans) : scans[k].id = ev.id /\ scans[k].status # Pending
    /\ validationHistory = <<>>

\* -------------------------------------------------------------------- C9
\* C9 as claimed: a reload whose fetches return while the identity is absent writes
\* neither collection nor the count and does not mark the initial load as done.
C9_LateReloadNotApplied ==
    [][(ev'.op = "reloadFinish" /\ user = NoUser)
          => UNCHANGED <<scans, validationHistory, totalUsers, initialFetched>>]_vars

\* ------------------------------------------------------------------- C10
\* C10: the step in which the identity becomes absent empties both collections,
\* zeroes the count, clears the initial-load flag and resets loading and error;
\* the flag is set again only by a reload that finishes successfully, and while
\* it is clear every notification is ignored.
C10_LogoutPurges ==
    [][/\ (user # NoUser /\ user' = NoUser)
             => /\ scans' = <<>>
                /\ validationHistory' = <<>>
                /\ totalUsers' = 0
                /\ ~initialFetched'
                /\ ~loading'
                /\ error' = NoError
       /\ (~initialFetched /\ initialFetched')
             => (ev'.op = "reloadFinish" /\ ev'.res = "ok")
       /\ (Delivers /\ ~initialFetched)
             => (ev'.res = "ignored" /\ UNCHANGED <<storeVars, handlers>>)]_vars

\* a logout has just purged a store that a reload had filled
C10_Witness ==
    /\ ev = Ev("logout", 0, "purged")
    /\ user = NoUser
    /\ scans = <<>>
    /\ ~initialFetched

\* ------------------------------------------------------------------- C11
\* the live validation_history rows of (scan, acting expert)
RowsOf(vals, sid) ==
    SelectSeq(vals, LAMBDA v : v.live /\ v.scan_id = sid /\ v.expert_id = Me)

\* the submit of slot i took the conflict path and its update is answered
\* without error in this step
ConflictPathSucceeds(i) ==
    /\ submits[i].pc = "historyUpdate"
    /\ ev' = Ev("audit", i, "success")

\* C11 as claimed: when a submit whose insert hit the uniqueness conflict has
\* updated instead, the remote store holds exactly one ValidationRecord of
\* (scan, expert), carrying that submit's status and determination.
C11_ConflictUpdatesTheRecord ==
    [][\A i \in SubmitSlots :
          ConflictPathSucceeds(i)
             => /\ Len(RowsOf(rVals', submits[i].scanId)) = 1
                /\ RowsOf(rVals', submits[i].scanId)[1].status = submits[i].status
                /\ RowsOf(rVals', submits[i].scanId)[1].expert_validation
                      = submits[i].expertValidation]_vars

\* ------------------------------------------------------------------- C12
\* C12: the step in which the audit insert reports the uniqueness conflict issues
\* the update, emits no failure notification, starts no compensating write and
\* writes nothing; and a conflict-path submit whose update is answered without
\* error ends with the success notification.
C12_ConflictNotAFailure ==
    [][\A i \in SubmitSlots :
          /\ ev' = Ev("audit", i, "conflict")
                => /\ submits[i].pc = "insert"
                   /\ submits'[i] = [submits[i] EXCEPT !.pc = "historyUpdate"]
                   /\ UNCHANGED <<remoteVars, storeVars, decision, notes>>
          /\ (submits[i].pc = "historyUpdate" /\ submits'[i].pc # "historyUpdate")
                => \/ ev' = Ev("audit", i, "success") /\ submits'[i].pc \in {"refresh", "idle"}
                   \/ ev' = Quiet /\ submits'[i].pc = "rollback" /\ rVals' = rVals]_vars

\* the insert of a submit has just been answered with the conflict: the update is
\* outstanding and the status the submit wrote is still in place
C12_Witness ==
    \E i \in SubmitSlots :
        /\ ev = Ev("audit", i, "conflict")
        /\ submits[i].pc = "historyUpdate"
        /\ Len(RowsOf(rVals, submits[i].scanId)) = 1
        /\ rScans[submits[i].scanId].status = submits[i].status

\* ------------------------------------------------------------------- C13
\* the step is a call of handleValidation
Submits(action) == ev'.op = "handleValidation " \o action

\* nothing but the notification: no transport call, no marker, no local change
NothingIssued == UNCHANGED <<user, channels, gateVars, remoteVars, providerVars, handlers, pageVars>>

\* C13: a submit(scanId, correct) whose corrected value is empty or whitespace
\* issues no transport call, sets no marker and changes no status.
C13_EmptyCorrectionRejected ==
    [][(Submits("correct") /\ CorrectedOf(ev'.id) = "") => NothingIssued]_vars

\* a correction with a whitespace-only value was rejected for that reason
C13_Witness ==
    /\ ev.op = "handleValidation correct"
    /\ ev.res = "Please select"
    /\ decision[ev.id] = Blank
    /\ processingScanId = NoScan

\* ------------------------------------------------------------------- C14
\* the call is for a scan the store does not hold, or no identity is present
Unresolvable == user = NoUser \/ ~Some(scans, ev'.id)

\* C14 as claimed: such a submit issues nothing and surfaces an error notification.
C14_RejectedWithNotification ==
    [][((Submits("confirm") \/ Submits("correct")) /\ Unresolvable)
          => /\ NothingIssued
             /\ ev'.res \in {"Scan not found", "You must be signed in"}]_vars

\* C14: such a submit issues nothing; it surfaces "Scan not found" or the sign-in
\* error unless the in-flight marker names the same scan, in which case it returns
\* without any notification.
C14_RejectedBeforeTransport ==
    [][((Submits("confirm") \/ Submits("correct")) /\ Unresolvable)
          => /\ NothingIssued
             /\ ev'.res = (IF Processing(ev'.id) THEN "guarded"
                           ELSE IF ~Some(scans, ev'.id) THEN "Scan not found"
                           ELSE "You must be signed in")]_vars

\* a submit for a scan the store holds was rejected because no identity is present
C14_Witness ==
    /\ ev.op = "handleValidation confirm"
    /\ ev.res = "You must be signed in"
    /\ user = NoUser
    /\ Some(scans, ev.id)
    /\ \A i \in SubmitSlots : submits[i].pc = "idle"

\* ------------------------------------------------------------------- C15
\* C15: when the status transition fails the submit ends at once: nothing is
\* written remotely, no reload starts, and the local collections and the drafts
\* are as before.
C15_FailedTransitionAborts ==
    [][\A i \in SubmitSlots :
          (submits[i].pc = "scanUpdate" /\ ev' = Ev("submitDone", i, "failure"))
             => /\ submits'[i] = Idle
                /\ UNCHANGED <<remoteVars, providerVars, handlers, decision, notes>>]_vars

\* a correction with a draft has failed at its status transition; the scan and
\* the draft are still there and the scan is still pending remotely
C15_Witness ==
    \E i \in SubmitSlots : \E id \in ScanIds :
        /\ ev = Ev("submitDone", i, "failure")
        /\ submits[i].pc = "idle"
        /\ decision[id] = DraftValue
        /\ Some(scans, id)
        /\ rScans[id].status = Pending
        /\ rVals = <<>>

\* ------------------------------------------------------------------- C16
\* the step belongs to a submit and is not its success notification nor the end
\* of the reload the success path awaits
FailurePathStep ==
    /\ submits' # submits
    /\ ev'.op \notin {"audit", "reloadFinish"}

\* C16: no step of a submit other than the success path changes the local
\* collections or the drafts, and a submit that has shown the success
\* notification does not end in failure.
C16_FailureLeavesLocalState ==
    [][/\ FailurePathStep
             => UNCHANGED <<scans, validationHistory, totalUsers, decision, notes>>
       /\ \A i \in SubmitSlots :
             ev' = Ev("audit", i, "conflict")
                => UNCHANGED <<scans, validationHistory, totalUsers, decision, notes>>
       /\ \A i \in SubmitSlots :
             (submits[i].pc = "refresh" \/ ev' = Ev("audit", i, "success"))
                => /\ submits'[i].pc \in {"refresh", "idle"}
                   /\ ~(ev'.op = "submitDone" /\ ev'.id = i)]_vars

\* a correction failed at its audit step and was rolled back; the scan and the
\* draft it was made from are still in place
C16_Witness ==
    \E i \in SubmitSlots : \E id \in ScanIds :
        /\ ev.op = "submitDone"
        /\ ev.id = i
        /\ ev.res \in {"rolled back", "rollback failed"}
        /\ decision[id] = DraftValue
        /\ Some(scans, id)
        /\ rVals = <<>>

\* ------------------------------------------------------------------- C17
\* the order of the steps of one submit
Rank(pc) ==
    IF pc = "idle" THEN 0
    ELSE IF pc = "scanUpdate" THEN 1
    ELSE IF pc = "insert" THEN 2
    ELSE IF pc = "historyUpdate" THEN 3
    ELSE 4

\* C17: the compensating write is issued only after the status transition
\* succeeded and the audit step failed, never after the success notification; it
\* is answered once and the submit then ends, whether it succeeded or not; and
\* a submit never goes back to a step it has passed.
C17_RollbackAtMostOnce ==
    [][\A i \in SubmitSlots :
          /\ (submits[i].pc # "rollback" /\ submits'[i].pc = "rollback")
                => /\ submits[i].pc \in {"insert", "historyUpdate"}
                   /\ rScans' = rScans
                   /\ ev'.op # "audit" \/ ev'.res # "success"
          /\ (submits[i].pc = "rollback" /\ submits'[i] # submits[i])
                => /\ submits'[i] = Idle
                   /\ ev'.op = "submitDone"
          /\ (submits[i].pc # "idle" /\ submits'[i] # submits[i])
                => \/ submits'[i] = Idle
                   \/ /\ Rank(submits'[i].pc) > Rank(submits[i].pc)
                      /\ submits'[i] = [submits[i] EXCEPT !.pc = submits'[i].pc]
          /\ (submits[i].pc = "idle" /\ submits'[i].pc # "idle")
                => (submits'[i].pc = "scanUpdate" /\ ev'.op \in {"handleValidation confirm",
                                                                 "handleValidation correct"})]_vars

\* a compensating write has failed and the submit has ended without another one:
\* the scan keeps the status the submit wrote
C17_Witness ==
    \E i \in SubmitSlots : \E id \in ScanIds :
        /\ ev = Ev("submitDone", i, "rollback failed")
        /\ \A j \in SubmitSlots : submits[j].pc = "idle"
        /\ rScans[id].status = Corrected
        /\ rVals = <<>>

\* ------------------------------------------------------------------- C18
\* C18: the step that applies an insert event of a ValidationRecord leaves the
\* record in the collection and, if the store holds the referenced scan, that
\* scan with the record's status and determination; every other scan is as it
\* was.
C18_RecordAndScanInOneStep ==
    [][\A h \in handlers :
          (Applies(h) /\ h.table = "validation_history" /\ h.kind = "INSERT")
             => /\ Some(validationHistory', h.id)
                /\ Len(scans') = Len(scans)
                /\ \A k \in 1..Len(scans) :
                      IF scans[k].id = h.row.scan_id
                      THEN scans'[k] = [scans[k] EXCEPT
                                           !.status = h.row.status,
                                           !.expert_validation = h.row.expert_validation]
                      ELSE scans'[k] = scans[k]]_vars

\* an insert event has added a record and the scan it names, which a reload had
\* brought in as pending, now carries the record's outcome
C18_Witness ==
    /\ ev.op = "apply INSERT validation_history"
    /\ ev.res = "added"
    /\ Len(validationHistory) = 1
    /\ \E k \in 1..Len(scans) :
          /\ scans[k].id = validationHistory[1].scan_id
          /\ scans[k].status = validationHistory[1].status
          /\ scans[k].expert_validation = validationHistory[1].expert_validation

\* ------------------------------------------------------------------- C20
\* C20: when the point-fetch of an insert or update event fails or finds no row,
\* the callback ends without touching the collections, the count, the error or
\* the loading state, and without starting a reload.
C20_FailedFetchDropsEvent ==
    [][\A h \in handlers :
          (h.pc = "fetched" /\ ~h.found /\ handlers' = handlers \ {h}
             /\ ev'.op = ApplyOp(h))
             => /\ ev'.res = "dropped"
                /\ UNCHANGED <<user, channels, gateVars, remoteVars, providerVars, pageVars>>]_vars

\* an update event for a scan that was deleted meanwhile has been dropped; the
\* store still holds the scan
C20_Witness ==
    /\ ev.op = "apply UPDATE scans"
    /\ ev.res = "dropped"
    /\ rScans[ev.id].st = "gone"
    /\ Some(scans, ev.id)
    /\ reloads = {}
    /\ error = NoError

\* ------------------------------------------------------------------- C19
\* the collection with the entry of this id taken out and nothing else touched
Without(seq, id) ==
    IF ~Some(seq, id) THEN seq
    ELSE SubSeq(seq, 1, FindIndex(seq, id) - 1)
            \o SubSeq(seq, FindIndex(seq, id) + 1, Len(seq))

\* C19: a delete event that is processed (the initial load is done) leaves its
\* collection without the entry of its identity (unchanged if it held none), the
\* other entries in their order, the other collection and the count as they
\* were, and starts no point-fetch; a Profile delete event lowers the count by at
\* most 1, never below 0, and touches no collection. Before the initial load the
\* event changes nothing.
C19_DeleteRemovesExactlyOne ==
    [][/\ ev'.op = "DELETE scans"
             => /\ scans' = (IF HandlesEvents THEN Without(scans, ev'.id) ELSE scans)
                /\ UNCHANGED <<validationHistory, totalUsers, handlers, reloads, remoteVars>>
       /\ ev'.op = "DELETE validation_history"
             => /\ validationHistory' = (IF HandlesEvents
                                         THEN Without(validationHistory, ev'.id)
                                         ELSE validationHistory)
                /\ UNCHANGED <<scans, totalUsers, handlers, reloads, remoteVars>>
       /\ ev'.op = "DELETE profiles"
             => /\ totalUsers' = (IF HandlesEvents /\ totalUsers > 0
                                  THEN totalUsers - 1 ELSE totalUsers)
                /\ UNCHANGED <<scans, validationHistory, handlers, reloads>>]_vars

\* the delete event of the middle one of three loaded records has been applied:
\* the other two are left, in their order
C19_Witness ==
    /\ ev = Ev("DELETE validation_history", 2, "applied")
    /\ Len(validationHistory) = 2
    /\ validationHistory[1].id = 3
    /\ validationHistory[2].id = 1
    /\ Len(scans) = MaxScanId

\* the event stream has gone quiet: the first reload is done, every notification
\* of a change has been delivered, every point-fetch has answered and every
\* callback has finished
Quiescent ==
    /\ user # NoUser
    /\ initialFetched
    /\ owed.on
    /\ owed.notes = {}
    /\ ~owed.lost
    /\ handlers = {}
    /\ reloads = {}

Holds(seq) == {seq[i] : i \in 1..Len(seq)}

\* the store holds exactly the remote rows, with their current values
Converged ==
    /\ Len(scans) = Len(SelectScans)
    /\ Holds(scans) = Holds(SelectScans)
    /\ Len(validationHistory) = Len(SelectValidations)
    /\ Holds(validationHistory) = Holds(SelectValidations)

\* C21: once the first reload is done, whenever the remote changes have stopped,
\* every notification has been delivered and every point-fetch has returned and
\* been applied, the store's scans and validation records are exactly the remote
\* rows with their current values.
C21_Convergence == Quiescent => Converged

\* this step starts exactly one reload and touches no other one
StartsOneReload ==
    /\ reloads \subseteq reloads'
    /\ Cardinality(reloads' \ reloads) = 1
    /\ \A r \in reloads' \ reloads : r.pc = "fetching"

StartsNoReload == reloads' = reloads

ProfileEvent(kind) == ev'.op = kind \o " profiles" /\ initialFetched

\* no reload is started and the two collections stay as they are
CountOnly ==
    UNCHANGED <<scans, validationHistory, reloads, isFetchingRef, loading, error>>

\* C23 as stated: after the first reload every profiles INSERT event changes the
\* count by exactly +1 and every DELETE event by exactly -1, with no reload and
\* no change of the collections.
C23_CountFollowsEveryEvent ==
    [][/\ ProfileEvent("INSERT") => totalUsers' = totalUsers + 1 /\ CountOnly
       /\ ProfileEvent("DELETE") => totalUsers' = totalUsers - 1 /\ CountOnly]_vars

\* C23: after the first reload every profiles INSERT event changes the count by
\* exactly +1; every DELETE event changes it by exactly -1 when it is above 0
\* and leaves it at 0 otherwise.  No profiles event starts a reload or changes
\* the collections.
C23_CountFollowsEventWithFloor ==
    [][/\ ProfileEvent("INSERT") => totalUsers' = totalUsers + 1 /\ CountOnly
       /\ ProfileEvent("DELETE")
             => /\ totalUsers' = (IF totalUsers = 0 THEN 0 ELSE totalUsers - 1)
                /\ CountOnly]_vars

C23_Witness ==
    /\ ev = Ev("INSERT profiles", 0, "applied")
    /\ initialFetched
    /\ totalUsers = 2
    /\ rProfiles = 2

\* what the rules of the workflow make of an action
StatusOf(action) == IF action = "confirm" THEN Validated ELSE Corrected

\* slot i is past the early returns of a call made in this step
Accepted(i) == submits[i].pc = "idle" /\ submits'[i].pc = "scanUpdate"

\* the rows of validation_history that the submit of p has written
Written(seq, p) == Matching(seq, p.scanId, Me)

\* C24: what a submit writes is determined by its action.  confirm: status
\* Validated and the scan's automated prediction as the determination; correct:
\* status Corrected and the trimmed, non-empty corrected value supplied with the
\* call.  The scan and the validation record get the same status, and the
\* record's prediction field is the scan's automated prediction.
C24_WrittenValues ==
    [][\A i \in SubmitSlots :
          /\ Accepted(i)
                => LET p == submits'[i]
                   IN IF p.action = "confirm"
                      THEN /\ p.status = Validated
                           /\ p.expertValidation = AiPrediction(p.scanId)
                      ELSE /\ p.status = Corrected
                           /\ p.expertValidation = Trim(decision[p.scanId])
                           /\ p.expertValidation \notin {"", Blank, DraftValue}
          /\ (submits[i].pc = "scanUpdate" /\ submits'[i].pc = "insert"
                /\ LiveScan(submits[i].scanId))
                => rScans'[submits[i].scanId].status = StatusOf(submits[i].action)
          /\ (ev' = Ev("audit", i, "success"))
                => LET p == submits[i]
                   IN \A k \in 1..Len(Written(rVals', p)) :
                          LET row == Written(rVals', p)[k]
                          IN /\ row.status = StatusOf(p.action)
                             /\ row.expert_validation = p.expertValidation
                             /\ row.ai_prediction = AiPrediction(p.scanId)]_vars

C24_Witness ==
    \E i \in SubmitSlots :
        /\ ev = Ev("audit", i, "success")
        /\ submits[i].pc = "refresh"
        /\ submits[i].action = "correct"
        /\ Len(rVals) = 1
        /\ rVals[1].status = Corrected
        /\ rVals[1].expert_validation = "corrected"
        /\ rVals[1].ai_prediction = AiPrediction(submits[i].scanId)
        /\ rScans[submits[i].scanId].status = Corrected

\* the submit of slot i shows its success notification in this step
Succeeds(i) == ev' = Ev("audit", i, "success")

\* C25: when a submit for a scan succeeds, the draft note and the draft decision
\* of that scan are gone and the drafts of the other scans are as they were, the
\* scan is not in the pending view, and a reload has been started (not dropped)
\* after the audit write.
C25_SuccessClearsAndReloads ==
    [][\A i \in SubmitSlots :
          Succeeds(i)
             => LET s == submits[i].scanId
                IN /\ decision'[s] = NoDraft
                   /\ notes'[s] = NoDraft
                   /\ \A o \in ScanIds \ {s} :
                          decision'[o] = decision[o] /\ notes'[o] = notes[o]
                   /\ ~InPendingView(scans', s)
                   /\ \E r \in reloads' \ reloads :
                          r.pc = "fetching" /\ r.owner = i]_vars

\* the tab becomes visible again, or Try Again is clicked
VisibleOrRetry == ev'.op \in {"visibility", "retry"}

\* C26 as stated: an identity that becomes present when no first reload has
\* committed starts a reload; with an identity present, the tab becoming visible
\* and a retry each start a reload unless one is in flight; with no identity
\* present no trigger starts a reload.
C26_TriggersStartReload ==
    [][/\ (ev'.op = "login" /\ ~initialFetched) => StartsOneReload
       /\ (VisibleOrRetry /\ user # NoUser)
             => IF isFetchingRef THEN StartsNoReload ELSE StartsOneReload
       /\ (VisibleOrRetry /\ user = NoUser) => StartsNoReload]_vars

\* the reload that commits in this step
Committing(r) == r \in reloads \ reloads' /\ r.pc = "fetched" /\ r.snap.ok

\* the row came without an embedded expert profile although it names an expert
EmptyJoin(v) == v.expert_profile = NoProfile /\ v.expert_id # Null

\* C27: in a successful reload a fetched validation record that names an expert
\* and came with an empty expert join, and whose profile the second query
\* returned, reaches the store with that profile's id, username, full name and
\* email and is otherwise as fetched; a record whose join was populated reaches
\* the store as fetched; and when the second query fails the reload still
\* succeeds and commits the rows as fetched.
C27_MissingProfilesPatched ==
    [][\A r \in reloads :
          Committing(r)
             => /\ ev' = Ev("reloadFinish", r.owner, "ok")
                /\ error' = error
                /\ initialFetched'
                /\ Len(validationHistory') = Len(r.snap.vals)
                /\ r.fb.asked = (MissingExpertIds(r.snap.vals) # {})
                /\ \A k \in 1..Len(r.snap.vals) :
                      LET v == r.snap.vals[k]
                          w == validationHistory'[k]
                      IN /\ (r.fb.ok /\ EmptyJoin(v) /\ Profile(v.expert_id) \in r.fb.profiles)
                               => w = [v EXCEPT !.expert_profile = Profile(v.expert_id)]
                         /\ v.expert_profile # NoProfile => w = v
                         /\ ~r.fb.ok => w = v]_vars

C27_Witness ==
    /\ ev = Ev("reloadFinish", 0, "ok")
    /\ Len(validationHistory) = 4
    /\ validationHistory[3].expert_id = "expert2"
    /\ ~rVals[3].joined
    /\ validationHistory[3].expert_profile = Profile("expert2")
    /\ validationHistory[4].expert_profile = Profile(Nameless)
    /\ validationHistory[1].expert_profile = NoProfile

\* the steps of a submit between setProcessingScanId and its toast
Working == {"scanUpdate", "insert", "historyUpdate", "rollback"}

\* toast.error of the catch block, for the submit of slot i
Fails(i) == ev'.op = "submitDone" /\ ev'.id = i

\* handleValidation is called in this step
Called == ev'.op \in {"handleValidation confirm", "handleValidation correct"}

\* C28: a submit that is past the in-flight guard ends having shown exactly one
\* notification.  A call that fails a precondition shows one error and ends; an
\* accepted submit shows nothing while its writes are outstanding and shows one
\* notification in the step in which they are done: the success notification if
\* and only if the status transition and the audit write (insert, or update
\* after a conflict) both succeeded, a failure notification otherwise; nothing
\* is shown after that; and every accepted submit ends.
C28_OneNotification ==
    /\ [][/\ Called => (ev'.res # "" => UNCHANGED submits)
          /\ \A i \in SubmitSlots :
                LET pc == submits[i].pc
                    next == submits'[i].pc
                IN /\ (pc \in Working /\ next \in Working) => ~Succeeds(i) /\ ~Fails(i)
                   /\ (pc \in Working /\ next \notin Working) => Succeeds(i) \/ Fails(i)
                   /\ pc \notin Working => ~Succeeds(i) /\ ~Fails(i)
                   /\ Succeeds(i)
                         => /\ pc \in {"insert", "historyUpdate"}
                            /\ pc = "insert"
                                  => rVals' = <<Payload(submits[i], Head(rVals'))>> \o rVals
                            /\ pc = "historyUpdate"
                                  => Written(rVals', submits[i])
                                       = Rewritten(Written(rVals, submits[i]), submits[i])
                   /\ Fails(i)
                         => /\ pc \in {"scanUpdate", "rollback"}
                            /\ rVals' = rVals
                            /\ pc = "scanUpdate" => rScans' = rScans
                   /\ (pc # "rollback" /\ next = "rollback")
                         => pc \in {"insert", "historyUpdate"} /\ rVals' = rVals]_vars
    /\ \A i \in SubmitSlots : (submits[i].pc # "idle") ~> (submits[i].pc = "idle")

C28_Witness ==
    \E i \in SubmitSlots :
        /\ ev = Ev("submitDone", i, "rolled back")
        /\ submits[i].pc = "idle"
        /\ rVals = <<>>
        /\ \E id \in ScanIds : LiveScan(id) /\ rScans[id].status = Pending

\* a submit of the expert has validated the scan, and the store does not show
\* it as pending
ValidatedHere(id) ==
    /\ LiveScan(id)
    /\ rScans[id].status # Pending
    /\ HasValOf(id, Me)
    /\ ~InPendingView(scans, id)

\* C29: a reload does not put an older snapshot over newer state: a scan that
\* a successful submit has validated, and that the store does not show as
\* pending, is not shown as Pending Validation by the commit of a reload.
C29_CommitKeepsNewerState ==
    [][\A r \in reloads :
          Committing(r)
             => \A id \in ScanIds :
                   ValidatedHere(id) => ~InPendingView(scans', id)]_vars

\* the callback h resumes after its point-fetch in this step
Resumes(h) == h \in handlers \ handlers' /\ h.pc = "fetched"

\* C30: between the logout purge and the next sign-in the collections stay
\* empty and the count stays 0: an INSERT or UPDATE callback that passed the
\* first-reload check before the logout and resumes after it adds no record.
C30_PurgedStoreStaysEmpty ==
    [][\A h \in handlers :
          (Resumes(h) /\ user = NoUser)
             => UNCHANGED <<scans, validationHistory, totalUsers>>]_vars

\* the reload r ends in this step after one of its bulk queries failed
FailingReload(r) == r \in reloads \ reloads' /\ r.pc = "fetched" /\ ~r.snap.ok

\* C31: a reload of which a bulk query failed commits nothing: the scans, the
\* validation records, the count and the first-reload flag are what they were,
\* and an error message is recorded; a store that had been loaded stays loaded
\* with its contents.
C31_FailedReloadCommitsNothing ==
    [][\A r \in reloads :
          FailingReload(r)
             => /\ UNCHANGED <<scans, validationHistory, totalUsers, initialFetched>>
                /\ error' # NoError
                /\ ev' = Ev("reloadFinish", r.owner, "error")]_vars

C31_Witness ==
    /\ ev = Ev("reloadFinish", 0, "error")
    /\ error # NoError
    /\ initialFetched
    /\ scans # <<>>
    /\ totalUsers > 0

\* C32: every reload that starts finishes, given that each query is answered;
\* when it finishes, by success or by failure, isFetchingRef and loading are
\* false; and isFetchingRef is set only while a reload is running, so that no
\* request is dropped for a flag left behind.
C32_ReloadFinishesAndResets ==
    /\ [][\A r \in reloads :
             (r \in reloads \ reloads' /\ r.pc = "fetched")
                => ~isFetchingRef' /\ ~loading' /\ reloads' = {}]_vars
    /\ [](isFetchingRef <=> reloads # {})
    /\ (reloads # {}) ~> (reloads = {})

C32_Witness ==
    /\ ev = Ev("reloadFinish", 0, "error")
    /\ reloads = {}
    /\ ~isFetchingRef
    /\ ~loading
    /\ ~initialFetched

\* the submit of slot i runs its finally block in this step
Finishes(i) == submits[i].pc # "idle" /\ submits'[i].pc = "idle"

\* C33: every submit that has set the in-flight marker finishes, given that
\* each transport call is answered; when it finishes, by success, by failure
\* or by a failed rollback, the marker does not name its scan; and finishing a
\* submit leaves a marker that names another scan as it is.
C33_MarkerReleased ==
    /\ [][\A i \in SubmitSlots :
             /\ Accepted(i) => processingScanId' = submits'[i].scanId
             /\ Finishes(i)
                   => /\ processingScanId' # submits[i].scanId
                      /\ processingScanId # submits[i].scanId
                            => processingScanId' = processingScanId]_vars
    /\ \A i \in SubmitSlots : (submits[i].pc \in Working) ~> (submits[i].pc = "idle")

C33_Witness ==
    \E i \in SubmitSlots : \E j \in SubmitSlots \ {i} :
        /\ ev = Ev("submitDone", i, "failure")
        /\ submits[i].pc = "idle"
        /\ submits[j].pc \in Working
        /\ processingScanId = submits[j].scanId

\* no reload in flight, the initial load done, and no Profile notification
\* waiting for delivery
CountSettled ==
    /\ user # NoUser
    /\ reloads = {}
    /\ initialFetched
    /\ profFeed = [ins |-> 0, del |-> 0]

\* C34: whenever no reload is in flight, the initial load is done and every
\* Profile notification has been delivered, the derived count equals the
\* number of profiles in the remote store; the count is never negative.
C34_CountAccurate ==
    /\ CountSettled => totalUsers = rProfiles
    /\ totalUsers >= 0

\* C35: at every moment at most one channel created by the DataProvider is
\* live, it is the channel of the present identity, and none is live while no
\* identity is present: when the identity changes or is lost, the step that
\* commits the change removes the previous channel.
C35_OneChannel ==
    /\ Len(channels) <= 1
    /\ user = NoUser => channels = <<>>
    /\ \A k \in 1..Len(channels) : channels[k] = ChannelName(user)

C35_Witness ==
    /\ user = Other
    /\ channels = <<ChannelName(Other)>>
    /\ initialFetched
    /\ scans # <<>>

\* logout() has cleared user and profile and awaits signOut
LoggedOut ==
    /\ user = NoUser
    /\ profile = NoUserProfile
    /\ \E q \in resolutions : q.kind = "signOut"

\* the session resolution r, suspended at an await, resumes in this step
ResumesSession(r) == r \in resolutions \ resolutions' /\ r.kind # "signOut"

\* C36: a present profile belongs to the present user, and once logout() has
\* cleared user and profile, a session resolution that was suspended at an
\* await does not set either of them back to a present value when it resumes.
C36_LogoutNotUndone ==
    /\ [](profile # NoUserProfile => (user # NoUser /\ profile.id = user))
    /\ [][\A r \in resolutions :
             (LoggedOut /\ ResumesSession(r))
                => (user' = NoUser /\ profile' = NoUserProfile)]_vars

\* what the guarded page shows
GuardShows == IF Mounted THEN Renders(sessionLoading, user, profile) ELSE "login page"

WrongRole == profile # NoUserProfile /\ profile.role # "expert"

\* C37: AuthGuard does not render its children while the session is loading,
\* while no user is present, or while a loaded profile has a role other than
\* expert; in the latter two cases, with loading false, a mounted guard has
\* asked for the login page.
C37_GuardedChildren ==
    /\ GuardShows = "children" => (~sessionLoading /\ user # NoUser /\ ~WrongRole)
    /\ (Mounted /\ ~sessionLoading /\ (user = NoUser \/ WrongRole)) => route = "leaving"

C37_Witness ==
    /\ route = "leaving"
    /\ ~sessionLoading
    /\ user = Other
    /\ WrongRole
    /\ ev = Ev("profile", 0, "role toast")

====
